---- MODULE Spec2Model ----
(***************************************************************************)
(* A model of the vision-models client (vertexai/vision_models/            *)
(* _vision_models.py): media references (Image, Video, GeneratedImage)     *)
(* with their lazily fetched byte cache, the request builders of the       *)
(* prediction operations, and the save / load round trip of the            *)
(* generation parameters.                                                  *)
(*                                                                         *)
(* Python values are modelled with one shape per type so that None, an     *)
(* empty value and a non-empty value stay three different things:          *)
(*   Optional[T]  [set |-> FALSE, val |-> <default>]  is None              *)
(*                [set |-> TRUE,  val |-> v]          is the value v       *)
(*   bytes        [size, enc, exif]: what the byte string decodes to;      *)
(*                EmptyBytes is b""                                        *)
(*   str          a TLA+ string, "" is the empty str                       *)
(***************************************************************************)
EXTENDS Integers, Sequences, FiniteSets, TLC

VARIABLES
    media,      \* the Image / Video instance under test (NoObject before construction)
    ctor,       \* the last constructor call: its arguments and whether it raised
    blob,       \* the content of the Cloud Storage object the URI names
    downloads,  \* download_as_bytes() calls that returned, for the current instance
    reads,      \* reads of the bytes accessor that returned, for the current instance
    firstRead,  \* the bytes the first returned read gave
    last,       \* the last accessor-level operation: its name, exception and value
    fs,         \* the local file system: location -> Optional[bytes]
    pc,         \* concurrent accessors: each thread's position in the property getter
    fetched,    \* concurrent accessors: each thread's download result (a local)
    returned,   \* concurrent accessors: the value each thread's read returned
    heap,       \* the dict objects: reference -> generation-parameters bag
    loaded,     \* what the last GeneratedImage.load_from_file returned or raised
    saved,      \* per location: the bag the save that wrote the file embedded in it
    pil,        \* whether the PIL module could be imported (PIL_Image is not None)
    call,       \* the last call of a prediction operation: arguments, request, result
    _tool_contexts_to_append,  \* initializer.global_config._tool_contexts_to_append
    open,       \* tool contexts: per thread, the with-blocks it is inside, outermost first
    exc,        \* tool contexts: per thread, the exception that is propagating ("" if none)
    tlast,      \* tool contexts: the last entry or exit, what it popped and raised
    thist,      \* tool contexts: the list at the start, the threads that ever entered,
                \* and whether a with-block has been left yet
    job,        \* job polling: the status of the submitted job at the cluster
    job_status, \* job polling: the local job_status of the test ("None" before a poll)
    ppc,        \* job polling: the test's position in the polling loop
    polls       \* job polling: get_job_info(job_id).status calls made, and sleeps

mediaVars == <<media, ctor, blob, downloads, reads, firstRead, last, fs>>
raceVars == <<pc, fetched, returned>>
fileVars == <<heap, loaded, saved, pil>>
telVars == <<_tool_contexts_to_append, open, exc, tlast, thist>>
pollVars == <<job, job_status, ppc, polls>>
vars == <<media, ctor, blob, downloads, reads, firstRead, last, fs, pc, fetched, returned,
          heap, loaded, saved, pil, call, _tool_contexts_to_append, open, exc, tlast, thist,
          job, job_status, ppc, polls>>

(***************************************************************************)
(* Bounds of the model.                                                    *)
(***************************************************************************)
MaxReads == 3
NThreads == 2
MaxImages == 3
MaxDepth == 2
MaxPolls == 6

(***************************************************************************)
(* Values.                                                                 *)
(***************************************************************************)
NoExif == <<>>
EmptyBytes == [size |-> <<0, 0>>, enc |-> "", exif |-> NoExif]
SrcBytes(w, h) == [size |-> <<w, h>>, enc |-> "src", exif |-> NoExif]

NoneBytes == [set |-> FALSE, val |-> EmptyBytes]
SomeBytes(b) == [set |-> TRUE, val |-> b]
NoneStr == [set |-> FALSE, val |-> ""]
SomeStr(s) == [set |-> TRUE, val |-> s]

\* bool(x) of Python for an Optional[bytes] and an Optional[str]:
\* None and the empty value are both false.
BoolBytes(o) == o.set /\ o.val # EmptyBytes
BoolStr(o) == o.set /\ o.val # ""

GcsUri == "gs://bucket/object"
InlineBytes == SrcBytes(1024, 1024)
BlobV1 == SrcBytes(800, 1024)

BytesArgs == {NoneBytes, SomeBytes(EmptyBytes), SomeBytes(InlineBytes)}
UriArgs == {NoneStr, SomeStr(""), SomeStr(GcsUri)}
BlobContents == {BlobV1, SrcBytes(800, 800), EmptyBytes}
Kinds == {"Image", "Video"}
Locations == {"out.png", "copy.png"}

NoPil == [size |-> <<0, 0>>, exif |-> NoExif]
NoneImage == [set |-> FALSE, val |-> NoPil]
SomeImage(im) == [set |-> TRUE, val |-> im]
\* A reference to a dict object of the heap, or None.
NoneRef == [set |-> FALSE, val |-> 0]
SomeRef(r) == [set |-> TRUE, val |-> r]
NoObject == [cls |-> "none", loaded_bytes |-> NoneBytes, loaded_image |-> NoneImage,
             gcs_uri |-> NoneStr, generation_parameters |-> NoneRef]

\* The exceptions the module raises itself (all ValueError) and the others.
ErrConstruct == "ValueError: Either image_bytes or gcs_uri must be provided."
ErrSourceSize == "ValueError: Upscaling is currently only supported on images that are 1024x1024."
ErrTargetSize == "ValueError: Only the folowing square upscaling sizes are currently supported"
ErrNoInput == "ValueError: One of image, video, or contextual_text is required."
ErrNoParameters == "ValueError: Image does not have generation parameters."
ErrNoPil == "ValueError: The PIL module is required for saving generation parameters."
ErrImageSize == "ValueError: Image size exceeds 20MB limit."
ErrImageType == "ValueError: Image type is not supported."
ErrStorage == "google.cloud.exceptions: download_as_bytes failed"
ErrRemote == "google.api_core.exceptions: predict failed"
(***************************************************************************)
(* Image.__init__ and Video.__init__: the both-or-neither check, then the  *)
(* setter stores the bytes argument as given and the URI as given.         *)
(***************************************************************************)
Image_init_loose(image_bytes, gcs_uri) ==
    [raised |-> IF ~BoolBytes(image_bytes) /\ ~BoolStr(gcs_uri) THEN ErrConstruct ELSE "",
     obj |-> [cls |-> "Image", loaded_bytes |-> image_bytes, loaded_image |-> NoneImage,
              gcs_uri |-> gcs_uri, generation_parameters |-> NoneRef]]

Image_init(image_bytes, gcs_uri) ==
    [raised |-> IF BoolBytes(image_bytes) = BoolStr(gcs_uri) THEN ErrConstruct ELSE "",
     obj |-> [cls |-> "Image", loaded_bytes |-> image_bytes, loaded_image |-> NoneImage,
              gcs_uri |-> gcs_uri, generation_parameters |-> NoneRef]]

Video_init(video_bytes, gcs_uri) ==
    [raised |-> IF BoolBytes(video_bytes) = BoolStr(gcs_uri) THEN ErrConstruct ELSE "",
     obj |-> [cls |-> "Video", loaded_bytes |-> video_bytes, loaded_image |-> NoneImage,
              gcs_uri |-> gcs_uri, generation_parameters |-> NoneRef]]

MediaInit(kind, bytes, gcs_uri) ==
    IF kind = "Image" THEN Image_init(bytes, gcs_uri) ELSE Video_init(bytes, gcs_uri)

(***************************************************************************)
(* The property getters Image._image_bytes and Video._video_bytes.         *)
(* storage is what download_as_bytes() does if it is called: it returns    *)
(* the blob's content (ok) or raises.  The result names the instance       *)
(* afterwards, the value returned, the exception and the downloads made.   *)
(***************************************************************************)
Image_image_bytes(self, storage) ==
    IF ~self.loaded_bytes.set
    THEN IF storage.ok
         THEN [self |-> [self EXCEPT !.loaded_bytes = SomeBytes(storage.data)],
               ret |-> SomeBytes(storage.data), raised |-> "", fetches |-> 1]
         ELSE [self |-> self, ret |-> NoneBytes, raised |-> ErrStorage, fetches |-> 0]
    ELSE [self |-> self, ret |-> self.loaded_bytes, raised |-> "", fetches |-> 0]

Video_video_bytes(self, storage) ==
    IF ~self.loaded_bytes.set
    THEN IF storage.ok
         THEN [self |-> [self EXCEPT !.loaded_bytes = SomeBytes(storage.data)],
               ret |-> SomeBytes(storage.data), raised |-> "", fetches |-> 1]
         ELSE [self |-> self, ret |-> NoneBytes, raised |-> ErrStorage, fetches |-> 0]
    ELSE [self |-> self, ret |-> self.loaded_bytes, raised |-> "", fetches |-> 0]

\* The accessor of the instance's class.
MediaBytes(self, storage) ==
    IF self.cls = "Video" THEN Video_video_bytes(self, storage)
    ELSE Image_image_bytes(self, storage)

(***************************************************************************)
(* PIL_Image.open on a byte string: the decoded image (its size and EXIF), *)
(* or UnidentifiedImageError when the bytes are no image (b"").            *)
(***************************************************************************)
PilOpen(bytes) ==
    IF bytes = EmptyBytes
    THEN [raised |-> "PIL.UnidentifiedImageError", im |-> NoPil]
    ELSE [raised |-> "", im |-> [size |-> bytes.size, exif |-> bytes.exif]]

\* Image._pil_image: decode the bytes once and keep the decoded image.
Image_pil_image(self, storage) ==
    IF ~self.loaded_image.set
    THEN LET g == Image_image_bytes(self, storage)
             o == PilOpen(g.ret.val)
         IN IF g.raised # ""
            THEN [self |-> g.self, ret |-> NoneImage, raised |-> g.raised, fetches |-> g.fetches]
            ELSE IF o.raised # ""
            THEN [self |-> g.self, ret |-> NoneImage, raised |-> o.raised, fetches |-> g.fetches]
            ELSE [self |-> [g.self EXCEPT !.loaded_image = SomeImage(o.im)],
                  ret |-> SomeImage(o.im), raised |-> "", fetches |-> g.fetches]
    ELSE [self |-> self, ret |-> self.loaded_image, raised |-> "", fetches |-> 0]

\* base64.b64encode(bytes).decode("ascii"): the text of the bytes; b"" gives "".
B64Encode(bytes) == [b64 |-> bytes]
B64Decode(text) == text.b64
BoolB64(text) == text.b64 # EmptyBytes


(***************************************************************************)
(* SpecMedia: one media instance, read by one caller at a time.            *)
(* Each action is one call: a constructor, or a method that reads the      *)
(* bytes accessor.  The environment may replace the stored object.         *)
(***************************************************************************)
Threads == 1..NThreads
NoLast == [op |-> "", raised |-> "", value |-> NoneBytes]
NoCtor == [kind |-> "", bytes |-> NoneBytes, gcs_uri |-> NoneStr, raised |-> ""]
EmptyFs == [l \in Locations |-> NoneBytes]
RaceIdle ==
    /\ pc = [t \in Threads |-> "idle"]
    /\ fetched = [t \in Threads |-> EmptyBytes]
    /\ returned = [t \in Threads |-> NoneBytes]
NoCall == [op |-> ""]
EmptyHeap == <<>>
NoLoaded == [raised |-> "", obj |-> NoObject]
CallIdle == call = NoCall
NoBag == [set |-> FALSE, val |-> <<>>]
NoSaved == [l \in Locations |-> NoBag]
TelIdle ==
    /\ _tool_contexts_to_append = <<>>
    /\ open = [t \in Threads |-> <<>>]
    /\ exc = [t \in Threads |-> ""]
    /\ tlast = [op |-> ""]
    /\ thist = [initial |-> <<>>, actors |-> {}, exits |-> FALSE]
PollIdle ==
    /\ job = "PENDING"
    /\ job_status = "None"
    /\ ppc = "while"
    /\ polls = [status |-> 0, sleep |-> 0]
FileIdle == heap = EmptyHeap /\ loaded = NoLoaded /\ saved = NoSaved /\ pil = TRUE

InitMedia ==
    /\ media = NoObject
    /\ ctor = NoCtor
    /\ blob \in BlobContents
    /\ downloads = 0
    /\ reads = 0
    /\ firstRead = NoneBytes
    /\ last = NoLast
    /\ fs = EmptyFs
    /\ RaceIdle
    /\ FileIdle
    /\ CallIdle
    /\ TelIdle
    /\ PollIdle

\* Image(image_bytes, gcs_uri) or Video(video_bytes, gcs_uri): a new instance.
Construct(kind, bytes, gcs_uri) ==
    LET r == MediaInit(kind, bytes, gcs_uri) IN
    /\ ctor' = [kind |-> kind, bytes |-> bytes, gcs_uri |-> gcs_uri, raised |-> r.raised]
    /\ media' = IF r.raised = "" THEN r.obj ELSE NoObject
    /\ downloads' = 0
    /\ reads' = 0
    /\ firstRead' = NoneBytes
    /\ last' = NoLast
    /\ UNCHANGED <<blob, fs>>
    /\ UNCHANGED raceVars
    /\ UNCHANGED fileVars
    /\ UNCHANGED call
    /\ UNCHANGED telVars
    /\ UNCHANGED pollVars

\* What a call that reads the accessor leaves behind: self2 is the instance
\* afterwards, g the accessor's result, raised the call's exception.
AfterRead(op, self2, g, raised) ==
    /\ media' = self2
    /\ downloads' = downloads + g.fetches
    /\ reads' = IF g.raised = "" THEN reads + 1 ELSE reads
    /\ firstRead' = IF g.raised = "" /\ reads = 0 THEN g.ret ELSE firstRead
    /\ last' = [op |-> op, raised |-> raised, value |-> g.ret]
    /\ UNCHANGED <<ctor, blob>>
    /\ UNCHANGED raceVars
    /\ UNCHANGED fileVars
    /\ UNCHANGED call
    /\ UNCHANGED telVars
    /\ UNCHANGED pollVars

\* A direct read of image._image_bytes / video._video_bytes.
CallBytes(ok) ==
    LET g == MediaBytes(media, [ok |-> ok, data |-> blob]) IN
    /\ media.cls # "none"
    /\ reads < MaxReads
    /\ AfterRead("bytes", g.self, g, g.raised)
    /\ UNCHANGED fs

\* Image.save(location) / Video.save(location): write_bytes(accessor).
CallSave(location, ok) ==
    LET g == MediaBytes(media, [ok |-> ok, data |-> blob]) IN
    /\ media.cls # "none"
    /\ reads < MaxReads
    /\ AfterRead("save", g.self, g, g.raised)
    /\ fs' = IF g.raised = "" THEN [fs EXCEPT ![location] = g.ret] ELSE fs

\* Image._as_base64_string() / Video._as_base64_string().
CallAsBase64String(ok) ==
    LET g == MediaBytes(media, [ok |-> ok, data |-> blob]) IN
    /\ media.cls # "none"
    /\ reads < MaxReads
    /\ AfterRead("base64", g.self, g, g.raised)
    /\ UNCHANGED fs

\* image._size, the first time: _pil_image reads the accessor and decodes.
\* (Once the decoded image is kept, _size reads no bytes.)
CallSize(ok) ==
    LET g == Image_image_bytes(media, [ok |-> ok, data |-> blob])
        r == Image_pil_image(media, [ok |-> ok, data |-> blob])
    IN
    /\ media.cls = "Image"
    /\ ~media.loaded_image.set
    /\ reads < MaxReads
    /\ AfterRead("size", r.self, g, r.raised)
    /\ UNCHANGED fs

\* The environment: another client overwrites the stored object.
BlobChanges ==
    /\ \E b \in BlobContents \ {blob} : blob' = b
    /\ UNCHANGED <<media, ctor, downloads, reads, firstRead, last, fs>>
    /\ UNCHANGED raceVars
    /\ UNCHANGED fileVars
    /\ UNCHANGED call
    /\ UNCHANGED telVars
    /\ UNCHANGED pollVars

NextMedia ==
    \/ \E k \in Kinds, b \in BytesArgs, u \in UriArgs : Construct(k, b, u)
    \/ \E ok \in BOOLEAN : CallBytes(ok)
    \/ \E l \in Locations, ok \in BOOLEAN : CallSave(l, ok)
    \/ \E ok \in BOOLEAN : CallAsBase64String(ok)
    \/ \E ok \in BOOLEAN : CallSize(ok)
    \/ BlobChanges

SpecMedia == InitMedia /\ [][NextMedia]_vars


(***************************************************************************)
(* C1 (as stated): a construction with both arguments given, or with       *)
(* neither, raises ValueError, and one with exactly one argument given     *)
(* succeeds -- for every combination, an argument being given when it is   *)
(* not None.                                                               *)
(***************************************************************************)
C1_BothOrNeitherGivenFails ==
    ctor.kind # "" =>
        (ctor.raised = ErrConstruct <=> (ctor.bytes.set = ctor.gcs_uri.set))

(***************************************************************************)
(* C1 (amended): the constructor compares the truth values of its          *)
(* arguments.  It raises ValueError when both are non-empty and when each  *)
(* is None or empty (b"", ""), and succeeds, keeping both arguments as     *)
(* given, when exactly one is non-empty.                                   *)
(***************************************************************************)
NonEmptyBytes(o) == o.set /\ o.val.enc # ""
NonEmptyStr(o) == o.set /\ o.val \in {GcsUri}

C1_ConstructionCheck ==
    ctor.kind # "" =>
        /\ (NonEmptyBytes(ctor.bytes) /\ NonEmptyStr(ctor.gcs_uri)) => ctor.raised = ErrConstruct
        /\ (~NonEmptyBytes(ctor.bytes) /\ ~NonEmptyStr(ctor.gcs_uri)) => ctor.raised = ErrConstruct
        /\ (NonEmptyBytes(ctor.bytes) # NonEmptyStr(ctor.gcs_uri)) =>
               /\ ctor.raised = ""
               /\ media.cls = ctor.kind
        /\ (ctor.raised = "" /\ reads = 0) =>
               /\ media.loaded_bytes = ctor.bytes
               /\ media.gcs_uri = ctor.gcs_uri

\* An empty byte string given together with a URI: the construction succeeds.
C1_Witness ==
    /\ ctor.kind = "Image"
    /\ ctor.bytes = SomeBytes(EmptyBytes)
    /\ ctor.gcs_uri = SomeStr(GcsUri)
    /\ ctor.raised = ""
    /\ media.cls = "Image"

(***************************************************************************)
(* C2: for an instance backed by a remote URI, one or more reads of the    *)
(* bytes accessor, one after the other, perform exactly one download, and  *)
(* every read returns the bytes the first one returned.                    *)
(***************************************************************************)
C2_ExactlyOneDownload ==
    (media.cls # "none" /\ BoolStr(media.gcs_uri) /\ reads >= 1) =>
        /\ downloads = 1
        /\ last.value = firstRead
        /\ media.loaded_bytes = firstRead


(***************************************************************************)
(* SpecRace: several threads read the bytes accessor of one instance.      *)
(* The getter takes no lock, so its statements interleave: the test of     *)
(* _loaded_bytes, the download (a blocking call), the assignment and the   *)
(* return are one step each.                                               *)
(***************************************************************************)
\* The instances a constructor call can return.
Constructed ==
    {MediaInit(k, b, u).obj : <<k, b, u>> \in
        {x \in Kinds \X BytesArgs \X UriArgs : MediaInit(x[1], x[2], x[3]).raised = ""}}

InitRace ==
    /\ media \in Constructed
    /\ ctor = NoCtor
    /\ blob \in BlobContents
    /\ downloads = 0
    /\ reads = 0
    /\ firstRead = NoneBytes
    /\ last = NoLast
    /\ fs = EmptyFs
    /\ RaceIdle
    /\ FileIdle
    /\ CallIdle
    /\ TelIdle
    /\ PollIdle

\* if self._loaded_bytes is None:
GetterTest(t) ==
    /\ pc[t] = "idle"
    /\ pc' = [pc EXCEPT ![t] = IF ~media.loaded_bytes.set THEN "download" ELSE "return"]
    /\ UNCHANGED <<fetched, returned>>
    /\ UNCHANGED mediaVars
    /\ UNCHANGED fileVars
    /\ UNCHANGED call
    /\ UNCHANGED telVars
    /\ UNCHANGED pollVars

\* storage.Blob.from_string(...).download_as_bytes() returns the content.
GetterDownload(t) ==
    /\ pc[t] = "download"
    /\ fetched' = [fetched EXCEPT ![t] = blob]
    /\ downloads' = downloads + 1
    /\ pc' = [pc EXCEPT ![t] = "assign"]
    /\ UNCHANGED returned
    /\ UNCHANGED <<media, ctor, blob, reads, firstRead, last, fs>>
    /\ UNCHANGED fileVars
    /\ UNCHANGED call
    /\ UNCHANGED telVars
    /\ UNCHANGED pollVars

\* download_as_bytes() raises: the getter ends, nothing is kept.
GetterDownloadFails(t) ==
    /\ pc[t] = "download"
    /\ pc' = [pc EXCEPT ![t] = "raised"]
    /\ UNCHANGED <<fetched, returned>>
    /\ UNCHANGED mediaVars
    /\ UNCHANGED fileVars
    /\ UNCHANGED call
    /\ UNCHANGED telVars
    /\ UNCHANGED pollVars

\* self._loaded_bytes = <the downloaded bytes>
GetterAssign(t) ==
    /\ pc[t] = "assign"
    /\ media' = [media EXCEPT !.loaded_bytes = SomeBytes(fetched[t])]
    /\ pc' = [pc EXCEPT ![t] = "return"]
    /\ UNCHANGED <<fetched, returned>>
    /\ UNCHANGED <<ctor, blob, downloads, reads, firstRead, last, fs>>
    /\ UNCHANGED fileVars
    /\ UNCHANGED call
    /\ UNCHANGED telVars
    /\ UNCHANGED pollVars

\* return self._loaded_bytes
GetterReturn(t) ==
    /\ pc[t] = "return"
    /\ returned' = [returned EXCEPT ![t] = media.loaded_bytes]
    /\ reads' = reads + 1
    /\ pc' = [pc EXCEPT ![t] = "done"]
    /\ UNCHANGED fetched
    /\ UNCHANGED <<media, ctor, blob, downloads, firstRead, last, fs>>
    /\ UNCHANGED fileVars
    /\ UNCHANGED call
    /\ UNCHANGED telVars
    /\ UNCHANGED pollVars

NextRace ==
    \/ \E t \in Threads : GetterTest(t)
    \/ \E t \in Threads : GetterDownload(t)
    \/ \E t \in Threads : GetterDownloadFails(t)
    \/ \E t \in Threads : GetterAssign(t)
    \/ \E t \in Threads : GetterReturn(t)
    \/ BlobChanges

SpecRace == InitRace /\ [][NextRace]_vars

(***************************************************************************)
(* C10: when several threads read the bytes of one remote-backed instance  *)
(* concurrently, at most one download is performed for it, under every     *)
(* interleaving.                                                           *)
(***************************************************************************)
C10_AtMostOneDownload ==
    BoolStr(media.gcs_uri) => downloads <= 1


(***************************************************************************)
(* Python values of a parameter dict or a generation-parameters bag, with  *)
(* their type: "prompt" and 7 and 7.0 and True are four different values.  *)
(* A float is modelled by its integral value n (n.0).                      *)
(***************************************************************************)
PyStr(s) == [t |-> "str", s |-> s, n |-> 0]
PyInt(n) == [t |-> "int", s |-> "", n |-> n]
PyFloat(n) == [t |-> "float", s |-> "", n |-> n]
PyBool(b) == [t |-> "bool", s |-> "", n |-> IF b THEN 1 ELSE 0]
PyNone == [t |-> "NoneType", s |-> "", n |-> 0]
PyTuple(n) == [t |-> "tuple", s |-> "", n |-> n]
PyList(n) == [t |-> "list", s |-> "", n |-> n]

NoneNum == [set |-> FALSE, val |-> 0]
SomeNum(n) == [set |-> TRUE, val |-> n]
BoolNum(o) == o.set /\ o.val # 0

\* A dict is a function from its keys; d[k] = v overwrites or adds.
EmptyDict == <<>>
DictSet(d, k, v) == (k :> v) @@ d

\* hashlib.sha1(bytes).hexdigest(): a str that names exactly those bytes.
Sha1Hex(bytes) == "sha1:" \o ToString(bytes)

\* Image._as_base64_string(): base64 of the bytes the accessor returns.
as_base64_string(self, storage) ==
    LET g == MediaBytes(self, storage) IN
    [self |-> g.self, raised |-> g.raised, fetches |-> g.fetches,
     ret |-> B64Encode(g.ret.val)]

(***************************************************************************)
(* The media entry of a request instance, as every operation builds it     *)
(* (if image._gcs_uri: {"gcsUri": ...} else: {"bytesBase64Encoded": ...}). *)
(***************************************************************************)
MediaEntryBothKeys(media_, storage) ==
    LET e == as_base64_string(media_, storage) IN
    [self |-> e.self, raised |-> e.raised, fetches |-> e.fetches,
     entry |-> IF BoolStr(media_.gcs_uri)
               THEN ("gcsUri" :> media_.gcs_uri.val) @@ ("bytesBase64Encoded" :> e.ret)
               ELSE ("bytesBase64Encoded" :> e.ret)]

MediaEntry(media_, storage) ==
    IF BoolStr(media_.gcs_uri)
    THEN [self |-> media_, raised |-> "", fetches |-> 0,
          entry |-> ("gcsUri" :> media_.gcs_uri.val)]
    ELSE LET e == as_base64_string(media_, storage) IN
         [self |-> e.self, raised |-> e.raised, fetches |-> e.fetches,
          entry |-> ("bytesBase64Encoded" :> e.ret)]

\* GeneratedImage.__init__: Image.__init__, then the bag is kept by reference.
GeneratedImage_init(image_bytes, generation_parameters, gcs_uri) ==
    LET r == Image_init(image_bytes, gcs_uri) IN
    [raised |-> r.raised,
     obj |-> [r.obj EXCEPT !.cls = "GeneratedImage",
                           !.generation_parameters = generation_parameters]]

\* prediction.get(key) of a prediction dict: None when the key is missing.
GetBase64(prediction) ==
    IF "bytesBase64Encoded" \in DOMAIN prediction
    THEN [set |-> TRUE, val |-> prediction["bytesBase64Encoded"]]
    ELSE [set |-> FALSE, val |-> B64Encode(EmptyBytes)]
GetGcsUri(prediction) ==
    IF "gcsUri" \in DOMAIN prediction THEN SomeStr(prediction["gcsUri"]) ELSE NoneStr

\* base64.b64decode(encoded_bytes) if encoded_bytes else None
DecodedOrNone(encoded_bytes) ==
    IF encoded_bytes.set /\ BoolB64(encoded_bytes.val)
    THEN SomeBytes(B64Decode(encoded_bytes.val))
    ELSE NoneBytes


\* The first exception of a sequence of steps ("" when none raised).
FirstRaised(seq) ==
    IF \E i \in 1..Len(seq) : seq[i] # ""
    THEN seq[CHOOSE i \in 1..Len(seq) : seq[i] # "" /\ \A j \in 1..(i - 1) : seq[j] = ""]
    ELSE ""

Max(a, b) == IF a >= b THEN a ELSE b
NoneMedia == [set |-> FALSE, val |-> NoObject]
SomeMedia(m) == [set |-> TRUE, val |-> m]

(***************************************************************************)
(* What _generate_images does with a base image or a mask: the instance    *)
(* entry, and the URI (remote) or the SHA-1 of the bytes (inline) recorded  *)
(* in the shared generation parameters under uri_key or hash_key.          *)
(***************************************************************************)
input_image_uri_always(image, uri_key, hash_key, shared, storage) ==
    LET e == MediaEntry(image.val, storage)
        b == Image_image_bytes(e.self, storage)
        withUri == DictSet(shared, uri_key, PyStr(image.val.gcs_uri.val))
    IN IF ~image.set THEN [entry |-> EmptyDict, raised |-> "", shared |-> shared]
       ELSE IF BoolStr(image.val.gcs_uri)
       THEN [entry |-> e.entry, raised |-> e.raised, shared |-> withUri]
       ELSE [entry |-> e.entry, raised |-> FirstRaised(<<e.raised, b.raised>>),
             shared |-> DictSet(withUri, hash_key, PyStr(Sha1Hex(b.ret.val)))]

input_image(image, uri_key, hash_key, shared, storage) ==
    LET e == MediaEntry(image.val, storage)
        b == Image_image_bytes(e.self, storage)
    IN IF ~image.set THEN [entry |-> EmptyDict, raised |-> "", shared |-> shared]
       ELSE IF BoolStr(image.val.gcs_uri)
       THEN [entry |-> e.entry, raised |-> e.raised,
             shared |-> DictSet(shared, uri_key, PyStr(image.val.gcs_uri.val))]
       ELSE [entry |-> e.entry, raised |-> FirstRaised(<<e.raised, b.raised>>),
             shared |-> DictSet(shared, hash_key, PyStr(Sha1Hex(b.ret.val)))]

\* if cond: d[k] = v
SetAlways(cond, d, k, v) == DictSet(d, k, v)

SetIf(cond, d, k, v) == IF cond THEN DictSet(d, k, v) ELSE d

\* generation_parameters = dict(shared_generation_parameters), plus the index.
image_parameters_from_one(shared, idx) ==
    DictSet(shared, "index_of_image_in_batch", PyInt(idx + 1))

image_parameters(shared, idx) ==
    DictSet(shared, "index_of_image_in_batch", PyInt(idx))

\* dict(shared_generation_parameters) in the i-th round of the loop: a new
\* dict object, the i-th of the heap the call returns.
dict_shared(i) == SomeRef(1)

dict_copy(i) == SomeRef(i)

(***************************************************************************)
(* self._endpoint.predict(instances=[instance], parameters=parameters), as *)
(* each operation calls it: once, outside any loop or try block, so what   *)
(* the endpoint raises is what the operation raises.                       *)
(***************************************************************************)
endpoint_predict_retried(env) ==
    [calls |-> IF env.predict.ok THEN 1 ELSE 2,
     raised |-> IF env.predict.ok THEN "" ELSE ErrRemote,
     predictions |-> IF env.predict.ok THEN env.predict.predictions ELSE <<>>]

endpoint_predict(env) ==
    [calls |-> 1,
     raised |-> IF env.predict.ok THEN "" ELSE ErrRemote,
     predictions |-> IF env.predict.ok THEN env.predict.predictions ELSE <<>>]

\* The predict calls of an operation whose statements before the predict
\* call raised (raisedBefore) or did not (""): raising leaves the operation.
predict_despite_raised(raisedBefore, env) == endpoint_predict(env).calls

predict_unless_raised(raisedBefore, env) ==
    IF raisedBefore = "" THEN endpoint_predict(env).calls ELSE 0

(***************************************************************************)
(* ImageGenerationModel._generate_images.  env.storage is what Cloud       *)
(* Storage does if a download is made, env.predict what the endpoint does: *)
(* [ok |-> FALSE] raises, [ok |-> TRUE, predictions |-> <<...>>] returns.  *)
(* The result: the exception raised ("" when none), the instance and       *)
(* parameters built, the number of predict calls, the images returned and  *)
(* the heap of their generation-parameters dicts.                          *)
(***************************************************************************)
_generate_images(prompt, negative_prompt, number_of_images, width, height, guidance_scale, seed, base_image, mask, language, output_gcs_uri, env) ==
    LET instance0 == ("prompt" :> prompt)
        shared0 == ("prompt" :> PyStr(prompt))
                   @@ ("number_of_images_in_batch" :> PyInt(number_of_images))
        \* if base_image:
        bi == input_image(base_image, "base_image_uri", "base_image_hash", shared0,
                          env.storage)
        instance1 == SetIf(base_image.set, instance0, "image", bi.entry)
        \* if mask:
        mi == input_image(mask, "mask_uri", "mask_hash", bi.shared, env.storage)
        instance2 == SetIf(mask.set, instance1, "mask", ("image" :> mi.entry))
        raisedBase == bi.raised
        raisedMask == mi.raised
        \* parameters = {}
        max_size == Max(IF BoolNum(width) THEN width.val ELSE 0,
                        IF BoolNum(height) THEN height.val ELSE 0)
        parameters1 == SetIf(max_size # 0, EmptyDict,
                             "sampleImageSize", PyStr(ToString(max_size)))
        parameters2 == SetIf(max_size # 0 /\ height.set /\ width.set
                                 /\ height.val # width.val,
                             parameters1, "aspectRatio",
                             PyStr(ToString(width.val) \o ":" \o ToString(height.val)))
        parameters3 == DictSet(parameters2, "sampleCount", PyInt(number_of_images))
        parameters4 == SetIf(BoolStr(negative_prompt), parameters3,
                             "negativePrompt", PyStr(negative_prompt.val))
        shared4 == SetIf(BoolStr(negative_prompt), mi.shared,
                         "negative_prompt", PyStr(negative_prompt.val))
        parameters5 == SetIf(seed.set, parameters4, "seed", PyInt(seed.val))
        shared5 == SetIf(seed.set, shared4, "seed", PyInt(seed.val))
        parameters6 == SetIf(guidance_scale.set, parameters5,
                             "guidanceScale", PyFloat(guidance_scale.val))
        shared6 == SetIf(guidance_scale.set, shared5,
                         "guidance_scale", PyFloat(guidance_scale.val))
        parameters7 == SetIf(language.set, parameters6, "language", PyStr(language.val))
        shared7 == SetIf(language.set, shared6, "language", PyStr(language.val))
        parameters == SetIf(output_gcs_uri.set, parameters7,
                            "storageUri", PyStr(output_gcs_uri.val))
        shared_generation_parameters ==
            SetIf(output_gcs_uri.set, shared7, "storage_uri", PyStr(output_gcs_uri.val))
        raisedBefore == FirstRaised(<<raisedBase, raisedMask>>)
        \* response = self._endpoint.predict(instances=[instance], parameters=parameters)
        predictions == endpoint_predict(env).predictions
        \* for idx, prediction in enumerate(response.predictions):
        generation_parameters(i) == image_parameters(shared_generation_parameters, i - 1)
        generated_image(i) ==
            GeneratedImage_init(DecodedOrNone(GetBase64(predictions[i])), dict_copy(i),
                                GetGcsUri(predictions[i]))
        raisedLoop == FirstRaised([i \in 1..Len(predictions) |-> generated_image(i).raised])
        raised == IF raisedBefore # "" THEN raisedBefore
                  ELSE IF endpoint_predict(env).raised # "" THEN endpoint_predict(env).raised
                  ELSE raisedLoop
    IN [raised |-> raised,
        instance |-> instance2,
        parameters |-> parameters,
        predict_calls |-> predict_unless_raised(raisedBefore, env),
        images |-> IF raised = ""
                   THEN [i \in 1..Len(predictions) |-> generated_image(i).obj] ELSE <<>>,
        heap |-> IF raised = ""
                 THEN [i \in 1..Len(predictions) |-> generation_parameters(i)] ELSE <<>>]

\* ImageGenerationModel.generate_images: no size, no base image, no mask.
generate_images(prompt, negative_prompt, number_of_images, guidance_scale, language, seed, output_gcs_uri, env) ==
    _generate_images(prompt, negative_prompt, number_of_images, NoneNum, NoneNum,
                     guidance_scale, seed, NoneMedia, NoneMedia, language, output_gcs_uri, env)

\* ImageGenerationModel.edit_image: a base image, and maybe a mask.
edit_image(prompt, base_image, mask, negative_prompt, number_of_images, guidance_scale, language, seed, output_gcs_uri, env) ==
    _generate_images(prompt, negative_prompt, number_of_images, NoneNum, NoneNum,
                     guidance_scale, seed, SomeMedia(base_image), mask, language,
                     output_gcs_uri, env)


_SUPPORTED_UPSCALING_SIZES == {2048, 4096}
ErrIndex == "IndexError: list index out of range"
(***************************************************************************)
(* ImageGenerationModel.upscale_image.  heap_ is the heap of dicts before  *)
(* the call; the result gives the source image and the heap afterwards.    *)
(***************************************************************************)
\* The two checks upscale_image makes before it builds the request.
upscale_check_both_axes(size, new_size) ==
    IF size[1] # 1024 \/ size[2] # 1024 THEN ErrSourceSize
    ELSE IF ~(new_size.set /\ new_size.val \in _SUPPORTED_UPSCALING_SIZES) THEN ErrTargetSize
    ELSE ""

upscale_check(size, new_size) ==
    IF size[1] # 1024 /\ size[2] # 1024 THEN ErrSourceSize
    ELSE IF ~(new_size.set /\ new_size.val \in _SUPPORTED_UPSCALING_SIZES) THEN ErrTargetSize
    ELSE ""

\* The bag of the image upscale_image returns: the source's own dict when the
\* source is a GeneratedImage, a new dict otherwise; then the size is set in it.
upscale_parameters_copied(image, new_size, heap_) ==
    IF image.cls = "GeneratedImage" /\ ~image.generation_parameters.set
    THEN [ref |-> NoneRef, heap |-> heap_]
    ELSE [ref |-> SomeRef(Len(heap_) + 1),
          heap |-> Append(heap_,
                          DictSet(IF image.cls = "GeneratedImage"
                                  THEN heap_[image.generation_parameters.val]
                                  ELSE EmptyDict,
                                  "upscaled_image_size", PyInt(new_size.val)))]

upscale_parameters(image, new_size, heap_) ==
    IF image.cls = "GeneratedImage"
    THEN [ref |-> image.generation_parameters,
          heap |-> IF image.generation_parameters.set
                   THEN [heap_ EXCEPT ![image.generation_parameters.val] =
                            DictSet(heap_[image.generation_parameters.val],
                                    "upscaled_image_size", PyInt(new_size.val))]
                   ELSE heap_]
    ELSE [ref |-> SomeRef(Len(heap_) + 1),
          heap |-> Append(heap_, DictSet(EmptyDict, "upscaled_image_size",
                                         PyInt(new_size.val)))]

upscale_image(image, new_size, output_gcs_uri, heap_, env) ==
    LET \* image._size
        sz == Image_pil_image(image, env.storage)
        size == sz.ret.val.size
        raisedCheck == IF sz.raised # "" THEN sz.raised ELSE upscale_check(size, new_size)
        e == MediaEntry(sz.self, env.storage)
        instance == ("prompt" :> "") @@ ("image" :> e.entry)
        parameters0 == ("sampleImageSize" :> PyStr(ToString(new_size.val)))
                       @@ ("sampleCount" :> PyInt(1))
                       @@ ("mode" :> PyStr("upscale"))
        parameters == IF output_gcs_uri.set
                      THEN DictSet(parameters0, "storageUri", PyStr(output_gcs_uri.val))
                      ELSE parameters0
        raisedBefore == FirstRaised(<<raisedCheck, e.raised>>)
        predictions == endpoint_predict(env).predictions
        \* upscaled_image = response.predictions[0]
        upscaled_image == predictions[1]
        bag == upscale_parameters(image, new_size, heap_)
        ref == bag.ref
        raisedBag == IF endpoint_predict(env).raised # "" THEN endpoint_predict(env).raised
                     ELSE IF Len(predictions) = 0 THEN ErrIndex
                     ELSE IF ~ref.set THEN "TypeError: 'NoneType' object does not support item assignment"
                     ELSE ""
        \* generation_parameters["upscaled_image_size"] = new_size
        heap1 == bag.heap
        made == GeneratedImage_init(DecodedOrNone(GetBase64(upscaled_image)), ref,
                                    GetGcsUri(upscaled_image))
        raised == IF raisedBefore # "" THEN raisedBefore
                  ELSE IF raisedBag # "" THEN raisedBag
                  ELSE made.raised
    IN [raised |-> raised,
        instance |-> IF raisedCheck = "" THEN instance ELSE EmptyDict,
        parameters |-> IF raisedBefore = "" THEN parameters ELSE EmptyDict,
        predict_calls |-> predict_unless_raised(raisedBefore, env),
        fetches |-> sz.fetches,
        image |-> sz.self,
        ret |-> IF raised = "" THEN made.obj ELSE NoObject,
        heap |-> IF raisedBefore = "" /\ raisedBag = "" THEN heap1 ELSE heap_]

(***************************************************************************)
(* ImageCaptioningModel.get_captions and ImageQnAModel.ask_question.       *)
(***************************************************************************)
get_captions(image, number_of_results, language, output_gcs_uri, env) ==
    LET e == MediaEntry(image, env.storage)
        instance == ("image" :> e.entry)
        parameters0 == ("sampleCount" :> PyInt(number_of_results))
                       @@ ("language" :> PyStr(language))
        parameters == IF output_gcs_uri.set
                      THEN DictSet(parameters0, "storageUri", PyStr(output_gcs_uri.val))
                      ELSE parameters0
    IN [raised |-> IF e.raised # "" THEN e.raised
                   ELSE IF endpoint_predict(env).raised # "" THEN endpoint_predict(env).raised ELSE "",
        instance |-> instance,
        parameters |-> parameters,
        predict_calls |-> predict_unless_raised(e.raised, env),
        ret |-> IF e.raised = "" /\ env.predict.ok THEN env.predict.predictions ELSE <<>>]

ask_question(image, question, number_of_results, env) ==
    LET e == MediaEntry(image, env.storage)
        instance == ("prompt" :> question) @@ ("image" :> e.entry)
        parameters == ("sampleCount" :> PyInt(number_of_results))
    IN [raised |-> IF e.raised # "" THEN e.raised
                   ELSE IF endpoint_predict(env).raised # "" THEN endpoint_predict(env).raised ELSE "",
        instance |-> instance,
        parameters |-> parameters,
        predict_calls |-> predict_unless_raised(e.raised, env),
        ret |-> IF e.raised = "" /\ env.predict.ok THEN env.predict.predictions ELSE <<>>]

(***************************************************************************)
(* MultiModalEmbeddingModel.get_embeddings.  video_segment_config is an    *)
(* Optional VideoSegmentConfig (three integers).                           *)
(***************************************************************************)
NoneConfig == [set |-> FALSE,
               val |-> [start_offset_sec |-> 0, end_offset_sec |-> 0, interval_sec |-> 0]]
VideoSegmentConfig(start_offset_sec, end_offset_sec, interval_sec) ==
    [set |-> TRUE, val |-> [start_offset_sec |-> start_offset_sec,
                            end_offset_sec |-> end_offset_sec,
                            interval_sec |-> interval_sec]]
NoneVector == [set |-> FALSE, val |-> <<>>]
\* prediction.get(key) for an embedding vector.
GetVector(prediction, key) ==
    IF key \in DOMAIN prediction THEN [set |-> TRUE, val |-> prediction[key]] ELSE NoneVector

\* if not image and not video and not contextual_text: raise ValueError(...)
embeddings_check_text_is_none(image, video, contextual_text) ==
    IF ~image.set /\ ~video.set /\ ~contextual_text.set THEN ErrNoInput ELSE ""

embeddings_check(image, video, contextual_text) ==
    IF ~image.set /\ ~video.set /\ ~BoolStr(contextual_text) THEN ErrNoInput ELSE ""

\* parameters = {}; if dimension: parameters["dimension"] = dimension
dimension_parameters_validated(dimension) ==
    IF dimension.set /\ dimension.val \in {128, 256, 512, 1408}
    THEN DictSet(EmptyDict, "dimension", PyInt(dimension.val))
    ELSE EmptyDict

dimension_parameters(dimension) ==
    IF BoolNum(dimension) THEN DictSet(EmptyDict, "dimension", PyInt(dimension.val))
    ELSE EmptyDict

get_embeddings(image, video, contextual_text, dimension, video_segment_config, env) ==
    LET raisedInput == embeddings_check(image, video, contextual_text)
        ie == MediaEntry(image.val, env.storage)
        ve == MediaEntry(video.val, env.storage)
        instance1 == IF image.set THEN DictSet(EmptyDict, "image", ie.entry) ELSE EmptyDict
        videoEntry == IF video_segment_config.set
                      THEN DictSet(ve.entry, "videoSegmentConfig",
                               [startOffsetSec |-> video_segment_config.val.start_offset_sec,
                                endOffsetSec |-> video_segment_config.val.end_offset_sec,
                                intervalSec |-> video_segment_config.val.interval_sec])
                      ELSE ve.entry
        instance2 == IF video.set THEN DictSet(instance1, "video", videoEntry) ELSE instance1
        instance == IF BoolStr(contextual_text)
                    THEN DictSet(instance2, "text", contextual_text.val) ELSE instance2
        parameters == dimension_parameters(dimension)
        raisedBefore == FirstRaised(<<raisedInput,
                                      IF image.set THEN ie.raised ELSE "",
                                      IF video.set THEN ve.raised ELSE "">>)
        predictions == endpoint_predict(env).predictions
        raised == IF raisedBefore # "" THEN raisedBefore
                  ELSE IF endpoint_predict(env).raised # "" THEN endpoint_predict(env).raised
                  ELSE IF Len(predictions) = 0 THEN ErrIndex
                  ELSE ""
        first == predictions[1]
    IN [raised |-> raised,
        instance |-> IF raisedInput = "" THEN instance ELSE EmptyDict,
        parameters |-> IF raisedInput = "" THEN parameters ELSE EmptyDict,
        predict_calls |-> predict_unless_raised(raisedBefore, env),
        image_embedding |-> IF raised = "" THEN GetVector(first, "imageEmbedding")
                            ELSE NoneVector,
        video_embeddings |-> IF raised = "" /\ "videoEmbeddings" \in DOMAIN first
                             THEN [i \in 1..Len(first["videoEmbeddings"]) |->
                                      [embedding |-> first["videoEmbeddings"][i].embedding,
                                       start_offset_sec |-> first["videoEmbeddings"][i].startOffsetSec,
                                       end_offset_sec |-> first["videoEmbeddings"][i].endOffsetSec]]
                             ELSE <<>>,
        text_embedding |-> IF raised = "" THEN GetVector(first, "textEmbedding")
                           ELSE NoneVector]


(***************************************************************************)
(* Spec: the prediction operations.  Each action is one call of a public   *)
(* operation by the caller, with arguments and an environment (what the    *)
(* endpoint and Cloud Storage answer) drawn from the sets below; call      *)
(* keeps the arguments and everything the call produced.                   *)
(***************************************************************************)
TextArgs == {NoneStr, SomeStr(""), SomeStr("blurry")}
OutputArgs == {NoneStr, SomeStr(""), SomeStr("gs://bucket/out")}
Counts == 1..MaxImages

\* The Image and Video instances a caller can hold.
ImageArgs == {m \in Constructed : m.cls = "Image"}
OptImageArgs == {NoneMedia} \cup {SomeMedia(m) : m \in ImageArgs}

\* What the endpoint may answer to a generation request: an error, or up to
\* MaxImages predictions that carry bytes, a URI, or neither (a filtered image).
PredictionKinds ==
    {("bytesBase64Encoded" :> B64Encode(SrcBytes(1024, 1024))) @@ ("mimeType" :> "image/png"),
     ("gcsUri" :> "gs://bucket/out/1.png") @@ ("mimeType" :> "image/png"),
     ("raiFilteredReason" :> "filtered")}
ImageAnswers ==
    {[ok |-> FALSE, predictions |-> <<>>]}
    \cup {[ok |-> TRUE, predictions |-> [i \in 1..n |-> p]] :
             n \in 0..MaxImages, p \in PredictionKinds}
TextAnswers ==
    {[ok |-> FALSE, predictions |-> <<>>], [ok |-> TRUE, predictions |-> <<>>],
     [ok |-> TRUE, predictions |-> <<"a cat on a mat">>]}

InitOps ==
    /\ media = NoObject
    /\ ctor = NoCtor
    /\ blob = BlobV1
    /\ downloads = 0
    /\ reads = 0
    /\ firstRead = NoneBytes
    /\ last = NoLast
    /\ fs = EmptyFs
    /\ RaceIdle
    /\ FileIdle
    /\ CallIdle
    /\ TelIdle
    /\ PollIdle

Called(op, args, env, res) ==
    /\ call = NoCall
    /\ call' = [op |-> op, args |-> args, env |-> env, res |-> res]
    /\ UNCHANGED mediaVars
    /\ UNCHANGED raceVars
    /\ UNCHANGED fileVars
    /\ UNCHANGED telVars
    /\ UNCHANGED pollVars

CallGenerateImages ==
    /\ call = NoCall
    /\ \E prompt \in {"a cat", ""}, negative_prompt \in TextArgs, number_of_images \in Counts,
       guidance_scale \in {NoneNum, SomeNum(0), SomeNum(7)},
       language \in {NoneStr, SomeStr(""), SomeStr("en")},
       seed \in {NoneNum, SomeNum(0), SomeNum(42)},
       output_gcs_uri \in OutputArgs, predict \in ImageAnswers :
        LET env == [storage |-> [ok |-> TRUE, data |-> BlobV1], predict |-> predict] IN
        Called("generate_images",
               [prompt |-> prompt, negative_prompt |-> negative_prompt,
                number_of_images |-> number_of_images, guidance_scale |-> guidance_scale,
                language |-> language, seed |-> seed, output_gcs_uri |-> output_gcs_uri,
                base_image |-> NoneMedia, mask |-> NoneMedia],
               env,
               generate_images(prompt, negative_prompt, number_of_images, guidance_scale,
                               language, seed, output_gcs_uri, env))

CallEditImage ==
    /\ call = NoCall
    /\ \E base_image \in ImageArgs, mask \in OptImageArgs, negative_prompt \in TextArgs,
       number_of_images \in Counts, guidance_scale \in {NoneNum, SomeNum(7)},
       language \in {NoneStr, SomeStr("en")}, seed \in {NoneNum, SomeNum(0)},
       output_gcs_uri \in {NoneStr, SomeStr("gs://bucket/out")}, predict \in ImageAnswers :
        LET env == [storage |-> [ok |-> TRUE, data |-> BlobV1], predict |-> predict] IN
        Called("edit_image",
               [prompt |-> "a cat", negative_prompt |-> negative_prompt,
                number_of_images |-> number_of_images, guidance_scale |-> guidance_scale,
                language |-> language, seed |-> seed, output_gcs_uri |-> output_gcs_uri,
                base_image |-> SomeMedia(base_image), mask |-> mask],
               env,
               edit_image("a cat", base_image, mask, negative_prompt, number_of_images,
                          guidance_scale, language, seed, output_gcs_uri, env))


\* The sources of an upscale: an Image or a GeneratedImage (with its bag at
\* reference 1 of the heap, or with no bag), inline with any size or remote.
Dims == {800, 1024, 2048}
SizedBytes == {SrcBytes(w, h) : w \in Dims, h \in Dims}
DefaultStorage == [ok |-> TRUE, data |-> BlobV1]
SizedStorage == {[ok |-> ok, data |-> b] : ok \in BOOLEAN, b \in SizedBytes}

CallUpscaleImage ==
    /\ call = NoCall
    /\ \E image \in ({Image_init(SomeBytes(b), NoneStr).obj : b \in SizedBytes}
                     \cup {Image_init(NoneBytes, SomeStr(GcsUri)).obj}
                     \cup {GeneratedImage_init(SomeBytes(b), r, NoneStr).obj : b \in SizedBytes,
                         r \in {NoneRef, SomeRef(1)}}
                     \cup {GeneratedImage_init(NoneBytes, r, SomeStr(GcsUri)).obj : r \in
                         {NoneRef, SomeRef(1)}}),
       new_size \in {NoneNum, SomeNum(1024), SomeNum(2048), SomeNum(4096)},
       output_gcs_uri \in OutputArgs,
       storage \in SizedStorage \cup {DefaultStorage},
       predict \in {[ok |-> FALSE, predictions |-> <<>>], [ok |-> TRUE, predictions |-> <<>>]}
                   \cup {[ok |-> TRUE, predictions |-> <<p>>] : p \in PredictionKinds} :
        LET env == [storage |-> storage, predict |-> predict]
            heap_ == IF image.generation_parameters.set
                     THEN << ("prompt" :> PyStr("a cat"))
                             @@ ("index_of_image_in_batch" :> PyInt(0)) >>
                     ELSE <<>>
        IN
        /\ IF BoolStr(image.gcs_uri) THEN storage \in SizedStorage
           ELSE storage = DefaultStorage
        /\ Called("upscale_image",
                  [image |-> image, new_size |-> new_size, output_gcs_uri |-> output_gcs_uri,
                   heap |-> heap_],
                  env,
                  upscale_image(image, new_size, output_gcs_uri, heap_, env))

CallGetCaptions ==
    /\ call = NoCall
    /\ \E image \in ImageArgs, number_of_results \in Counts, language \in {"en", ""},
       output_gcs_uri \in OutputArgs, predict \in TextAnswers :
        LET env == [storage |-> DefaultStorage, predict |-> predict] IN
        Called("get_captions",
               [image |-> image, number_of_results |-> number_of_results,
                language |-> language, output_gcs_uri |-> output_gcs_uri],
               env,
               get_captions(image, number_of_results, language, output_gcs_uri, env))

CallAskQuestion ==
    /\ call = NoCall
    /\ \E image \in ImageArgs, question \in {"what is it?", ""}, number_of_results \in Counts,
       predict \in TextAnswers :
        LET env == [storage |-> DefaultStorage, predict |-> predict] IN
        Called("ask_question",
               [image |-> image, question |-> question,
                number_of_results |-> number_of_results],
               env,
               ask_question(image, question, number_of_results, env))

CallGetEmbeddings ==
    /\ call = NoCall
    /\ \E image \in OptImageArgs, video \in {NoneMedia} \cup {SomeMedia(m) : m \in {m \in Constructed : m.cls = "Video"}},
       contextual_text \in {NoneStr, SomeStr(""), SomeStr("hello world")},
       dimension \in {NoneNum, SomeNum(0), SomeNum(-1), SomeNum(128), SomeNum(1000)},
       video_segment_config \in {NoneConfig, VideoSegmentConfig(0, 120, 16)},
       predict \in ({[ok |-> FALSE, predictions |-> <<>>], [ok |-> TRUE, predictions |->
                    <<>>], [ok |-> TRUE, predictions |-> << ("imageEmbedding" :> <<1, 2>>)
                    >>], [ok |-> TRUE, predictions |-> << ("imageEmbedding" :> <<1, 2>>)
                    @@ ("videoEmbeddings" :> << [embedding |-> <<3, 4>>, startOffsetSec
                    |-> 0, endOffsetSec |-> 16], [embedding |-> <<5, 6>>, startOffsetSec
                    |-> 16, endOffsetSec |-> 32] >>) @@ ("textEmbedding" :> <<7, 8>>)
                    >>]}) :
        LET env == [storage |-> DefaultStorage, predict |-> predict] IN
        Called("get_embeddings",
               [image |-> image, video |-> video, contextual_text |-> contextual_text,
                dimension |-> dimension, video_segment_config |-> video_segment_config],
               env,
               get_embeddings(image, video, contextual_text, dimension,
                              video_segment_config, env))

(***************************************************************************)
(* Claims about the request builders, checked under Spec.                  *)
(***************************************************************************)
MediaKeys == {"gcsUri", "bytesBase64Encoded"}

\* entry is the media entry the request holds for the media reference m.
EntryMatches(entry, m) ==
    /\ Cardinality(DOMAIN entry \cap MediaKeys) = 1
    /\ IF BoolStr(m.gcs_uri)
       THEN "gcsUri" \in DOMAIN entry /\ entry["gcsUri"] = m.gcs_uri.val
       ELSE /\ "bytesBase64Encoded" \in DOMAIN entry
            /\ entry["bytesBase64Encoded"] = B64Encode(m.loaded_bytes.val)

\* The entry under key of the instance, for an Optional media argument.
OptEntryMatches(instance, key, arg) ==
    arg.set => key \in DOMAIN instance /\ EntryMatches(instance[key], arg.val)

\* C3: in every request instance built by generate/edit, upscale_image,
\* get_captions, ask_question and get_embeddings, each media entry (image,
\* mask image, video) holds exactly one of gcsUri and bytesBase64Encoded:
\* gcsUri (that URI) when the reference has a URI, the base64 of its bytes
\* when it is inline.
C3_OneKeyPerMediaEntry ==
    call.op # "" =>
        LET inst == IF "instance" \in DOMAIN call.res THEN call.res.instance ELSE EmptyDict IN
        CASE call.op \in {"generate_images", "edit_image"} ->
                 /\ OptEntryMatches(inst, "image", call.args.base_image)
                 /\ call.args.mask.set =>
                        /\ "mask" \in DOMAIN inst
                        /\ EntryMatches(inst["mask"]["image"], call.args.mask.val)
          [] call.op = "upscale_image" ->
                 /\ call.res.predict_calls = 1 => "image" \in DOMAIN inst
                 /\ "image" \in DOMAIN inst => EntryMatches(inst["image"], call.res.image)
          [] call.op \in {"get_captions", "ask_question"} ->
                 EntryMatches(inst["image"], call.args.image)
          [] call.op = "get_embeddings" ->
                 call.res.predict_calls = 1 =>
                     /\ OptEntryMatches(inst, "image", call.args.image)
                     /\ OptEntryMatches(inst, "video", call.args.video)
          [] OTHER -> TRUE

\* A request was sent with a remote base image and an inline mask.
C3_Witness ==
    /\ call.op = "edit_image"
    /\ call.res.predict_calls = 1
    /\ BoolStr(call.args.base_image.val.gcs_uri)
    /\ call.args.mask.set
    /\ ~BoolStr(call.args.mask.val.gcs_uri)
    /\ DOMAIN call.res.instance["image"] = {"gcsUri"}
    /\ DOMAIN call.res.instance["mask"]["image"] = {"bytesBase64Encoded"}

\* The bag of the i-th image a generation call returned.
BagOf(i) == call.res.heap[call.res.images[i].generation_parameters.val]

\* The i-th returned image has index i (from 0), and every image carries the
\* call's prompt and number_of_images.
BagsIndexed ==
    \A i \in 1..Len(call.res.images) :
        /\ call.res.images[i].generation_parameters.set
        /\ BagOf(i)["index_of_image_in_batch"] = PyInt(i - 1)
        /\ BagOf(i)["prompt"] = PyStr(call.args.prompt)
        /\ BagOf(i)["number_of_images_in_batch"] = PyInt(call.args.number_of_images)

\* C4 as the specification states it: a generate_images call that returns has
\* produced exactly number_of_images items, the i-th with index i, all with
\* the same prompt and number_of_images_in_batch.
C4_ExactlyNImages ==
    (call.op = "generate_images" /\ call.res.raised = "") =>
        /\ Len(call.res.images) = call.args.number_of_images
        /\ BagsIndexed

\* C4 (amended): a generate_images call that returns has produced one item per
\* prediction the endpoint returned, whatever number_of_images was; the i-th
\* has index i, and all carry the same prompt and number_of_images_in_batch.
C4_OneImagePerPrediction ==
    (call.op = "generate_images" /\ call.res.raised = "") =>
        /\ Len(call.res.images) = Len(call.env.predict.predictions)
        /\ BagsIndexed

\* Three images were asked for and three came back.
C4_Witness ==
    /\ call.op = "generate_images"
    /\ call.res.raised = ""
    /\ call.args.number_of_images = 3
    /\ Len(call.res.images) = 3
    /\ BagOf(3)["index_of_image_in_batch"] = PyInt(2)

\* In bag: exactly the key that fits the media reference m, with its value.
HashOrUri(bag, m, uri_key, hash_key) ==
    IF BoolStr(m.gcs_uri)
    THEN /\ uri_key \in DOMAIN bag
         /\ bag[uri_key] = PyStr(m.gcs_uri.val)
         /\ hash_key \notin DOMAIN bag
    ELSE /\ hash_key \in DOMAIN bag
         /\ bag[hash_key] = PyStr(Sha1Hex(m.loaded_bytes.val))
         /\ uri_key \notin DOMAIN bag

\* C5: every image an edit_image call returns has base_image_hash (the digest
\* of the base image's bytes) when the base image is inline and base_image_uri
\* (its URI) when it is remote, never both; the same for a mask with mask_hash
\* and mask_uri.
C5_HashOrUriNeverBoth ==
    (call.op = "edit_image" /\ call.res.raised = "") =>
        \A i \in 1..Len(call.res.images) :
            /\ HashOrUri(BagOf(i), call.args.base_image.val,
                         "base_image_uri", "base_image_hash")
            /\ call.args.mask.set =>
                   HashOrUri(BagOf(i), call.args.mask.val, "mask_uri", "mask_hash")

\* Two images came back from an edit with an inline base image and a remote mask.
C5_Witness ==
    /\ call.op = "edit_image"
    /\ call.res.raised = ""
    /\ Len(call.res.images) >= 2
    /\ ~BoolStr(call.args.base_image.val.gcs_uri)
    /\ call.args.mask.set
    /\ BoolStr(call.args.mask.val.gcs_uri)
    /\ "base_image_hash" \in DOMAIN BagOf(2)
    /\ "mask_uri" \in DOMAIN BagOf(2)

\* The pixel size of the source of an upscale call: of its inline bytes, or of
\* the object its URI names.
SourceSize ==
    IF call.args.image.loaded_bytes.set THEN call.args.image.loaded_bytes.val.size
    ELSE call.env.storage.data.size
SourceReadable == call.args.image.loaded_bytes.set \/ call.env.storage.ok

C7_MissingInputIffNoneGiven ==
    call.op = "get_embeddings" =>
        (call.res.raised = ErrNoInput
            <=> (~call.args.image.set /\ ~call.args.video.set
                 /\ ~call.args.contextual_text.set))

\* C7 (amended): get_embeddings raises the missing-input error exactly when
\* there is no image, no video, and contextual_text is None or the empty string.
C7_MissingInputIffNoneTruthy ==
    call.op = "get_embeddings" =>
        (call.res.raised = ErrNoInput
            <=> (~call.args.image.set /\ ~call.args.video.set
                 /\ ~BoolStr(call.args.contextual_text)))

\* get_embeddings(contextual_text="") raised the missing-input error.
C7_Witness ==
    /\ call.op = "get_embeddings"
    /\ call.args.contextual_text = SomeStr("")
    /\ ~call.args.image.set
    /\ ~call.args.video.set
    /\ call.res.raised = ErrNoInput
    /\ call.res.predict_calls = 0

(***************************************************************************)
(* Files.  str.startswith, str.replace and urllib.parse.urlparse, as far   *)
(* as Image.load_from_file uses them.                                      *)
(***************************************************************************)
StartsWith(s, prefix) == Len(s) >= Len(prefix) /\ SubSeq(s, 1, Len(prefix)) = prefix

RECURSIVE Replace(_, _, _)
Replace(s, old, new) ==
    IF Len(s) < Len(old) THEN s
    ELSE IF SubSeq(s, 1, Len(old)) = old
    THEN new \o Replace(SubSeq(s, Len(old) + 1, Len(s)), old, new)
    ELSE SubSeq(s, 1, 1) \o Replace(SubSeq(s, 2, Len(s)), old, new)

\* The position of the first occurrence of the character c in s, 0 if none.
Find(s, c) ==
    IF \E i \in 1..Len(s) : SubSeq(s, i, i) = c
    THEN CHOOSE i \in 1..Len(s) :
             SubSeq(s, i, i) = c /\ \A j \in 1..(i - 1) : SubSeq(s, j, j) # c
    ELSE 0

\* urlparse(location): the scheme before the first ":" and the network
\* location between "//" and the next "/".
urlparse(location) ==
    LET colon == Find(location, ":")
        hasScheme == /\ colon > 1
                     /\ \A i \in 1..(colon - 1) : SubSeq(location, i, i) \in ({"a", "b",
                                                                              "c", "d",
                                                                              "e", "f",
                                                                              "g", "h",
                                                                              "i", "j",
                                                                              "k", "l",
                                                                              "m", "n",
                                                                              "o", "p",
                                                                              "q", "r",
                                                                              "s", "t",
                                                                              "u", "v",
                                                                              "w", "x",
                                                                              "y", "z",
                                                                              "A", "B",
                                                                              "C", "D",
                                                                              "E", "F",
                                                                              "G", "H",
                                                                              "I", "J",
                                                                              "K", "L",
                                                                              "M", "N",
                                                                              "O", "P",
                                                                              "Q", "R",
                                                                              "S", "T",
                                                                              "U", "V",
                                                                              "W", "X",
                                                                              "Y", "Z",
                                                                              "0", "1",
                                                                              "2", "3",
                                                                              "4", "5",
                                                                              "6", "7",
                                                                              "8", "9",
                                                                              "+", "-",
                                                                              "."})
        rest == IF hasScheme THEN SubSeq(location, colon + 1, Len(location)) ELSE location
        afterSlashes == SubSeq(rest, 3, Len(rest))
        slash == Find(afterSlashes, "/")
    IN [scheme |-> IF hasScheme THEN SubSeq(location, 1, colon - 1) ELSE "",
        netloc |-> IF ~StartsWith(rest, "//") THEN ""
                   ELSE IF slash = 0 THEN afterSlashes
                   ELSE SubSeq(afterSlashes, 1, slash - 1)]

_SUPPORTED_MIME_TYPES == {"image/png", "image/jpeg", "image/gif", "image/bmp"}
MaxContentLength == 20 * 1024 * 1024
ErrKey == "KeyError"
(***************************************************************************)
(* Image.load_from_file(location).  env.fs is the local file system and    *)
(* env.http what requests.get(location) answers: ok (a status below 400),  *)
(* the content-length header (0 when missing), the content-type header     *)
(* ("" when missing) and the body.                                         *)
(***************************************************************************)
Image_load_from_file(location, env) ==
    LET gcsLocation ==
            IF StartsWith(location, "https://storage.googleapis.com/")
            THEN Replace(Replace(location, "https://storage.googleapis.com/", "gs://"),
                         "%20", " ")
            ELSE location
        parsed_url == urlparse(gcsLocation)
    IN IF StartsWith(gcsLocation, "gs://")
       THEN Image_init(NoneBytes, SomeStr(gcsLocation))
       ELSE IF parsed_url.scheme # "" /\ parsed_url.netloc # ""
       THEN IF ~env.http.ok THEN [raised |-> "requests.exceptions.HTTPError", obj |-> NoObject]
            ELSE IF env.http.content_length > MaxContentLength
            THEN [raised |-> ErrImageSize, obj |-> NoObject]
            ELSE IF env.http.content_type \notin _SUPPORTED_MIME_TYPES
            THEN [raised |-> ErrImageType, obj |-> NoObject]
            ELSE Image_init(SomeBytes(env.http.content), NoneStr)
       ELSE IF gcsLocation \notin DOMAIN env.fs \/ ~env.fs[gcsLocation].set
       THEN [raised |-> "FileNotFoundError", obj |-> NoObject]
       ELSE Image_init(env.fs[gcsLocation], NoneStr)

(***************************************************************************)
(* json.dumps and json.loads on a generation-parameters bag.  A JSON text  *)
(* is modelled by its tokens: a member value is a string, an integer       *)
(* literal, a literal with a fraction, true, false, null or an array.      *)
(* dumps writes a tuple as an array, and loads reads an array as a list.   *)
(***************************************************************************)
json_dumps_value(v) ==
    CASE v.t = "str" -> [lex |-> "string", s |-> v.s, n |-> 0]
      [] v.t = "int" -> [lex |-> "int", s |-> "", n |-> v.n]
      [] v.t = "float" -> [lex |-> "real", s |-> "", n |-> v.n]
      [] v.t = "bool" -> [lex |-> IF v.n = 1 THEN "true" ELSE "false", s |-> "", n |-> 0]
      [] v.t = "NoneType" -> [lex |-> "null", s |-> "", n |-> 0]
      [] v.t \in {"tuple", "list"} -> [lex |-> "array", s |-> "", n |-> v.n]

json_loads_value_numbers_as_int(tok) ==
    CASE tok.lex = "string" -> PyStr(tok.s)
      [] tok.lex \in {"int", "real"} -> PyInt(tok.n)
      [] tok.lex = "true" -> PyBool(TRUE)
      [] tok.lex = "false" -> PyBool(FALSE)
      [] tok.lex = "null" -> PyNone
      [] tok.lex = "array" -> PyList(tok.n)

json_loads_value(tok) ==
    CASE tok.lex = "string" -> PyStr(tok.s)
      [] tok.lex = "int" -> PyInt(tok.n)
      [] tok.lex = "real" -> PyFloat(tok.n)
      [] tok.lex = "true" -> PyBool(TRUE)
      [] tok.lex = "false" -> PyBool(FALSE)
      [] tok.lex = "null" -> PyNone
      [] tok.lex = "array" -> PyList(tok.n)

_EXIF_USER_COMMENT_TAG_IDX == 37510
_IMAGE_GENERATION_PARAMETERS_EXIF_KEY ==
    "google.cloud.vertexai.image_generation.image_generation_parameters"

\* json.dumps({_IMAGE_GENERATION_PARAMETERS_EXIF_KEY: bag})
json_dumps(bag) ==
    (_IMAGE_GENERATION_PARAMETERS_EXIF_KEY :> [k \in DOMAIN bag |-> json_dumps_value(bag[k])])

\* json.loads(text): a dict of dicts again.
json_loads(text) ==
    [key \in DOMAIN text |-> [k \in DOMAIN text[key] |-> json_loads_value(text[key][k])]]

(***************************************************************************)
(* GeneratedImage.save(location, include_generation_parameters).  heap_ is *)
(* the heap of dicts, env.pil whether PIL was imported, env.storage what a *)
(* download does, env.fs the file system before.  With the parameters      *)
(* included, PIL writes the decoded image again with the EXIF user comment *)
(* set (in the decoded image the instance keeps, too); without, Image.save *)
(* writes the accessor's bytes.  location is a path PIL can write an       *)
(* EXIF-carrying image to.                                                 *)
(***************************************************************************)
GeneratedImage_save_none_only(self, location, include_generation_parameters, heap_, env) ==
    LET p == Image_pil_image(self, env.storage)
        g == Image_image_bytes(self, env.storage)
        bag == heap_[self.generation_parameters.val]
        exif == (_EXIF_USER_COMMENT_TAG_IDX :> json_dumps(bag)) @@ p.ret.val.exif
        written == [size |-> p.ret.val.size, enc |-> "pil", exif |-> exif]
    IN IF include_generation_parameters
       THEN IF ~self.generation_parameters.set
            THEN [raised |-> ErrNoParameters, self |-> self, fs |-> env.fs, fetches |-> 0]
            ELSE IF ~env.pil
            THEN [raised |-> ErrNoPil, self |-> self, fs |-> env.fs, fetches |-> 0]
            ELSE IF p.raised # ""
            THEN [raised |-> p.raised, self |-> p.self, fs |-> env.fs, fetches |-> p.fetches]
            ELSE [raised |-> "",
                  self |-> [p.self EXCEPT !.loaded_image.val.exif = exif],
                  fs |-> [env.fs EXCEPT ![location] = SomeBytes(written)],
                  fetches |-> p.fetches]
       ELSE IF g.raised # ""
            THEN [raised |-> g.raised, self |-> g.self, fs |-> env.fs, fetches |-> g.fetches]
            ELSE [raised |-> "", self |-> g.self,
                  fs |-> [env.fs EXCEPT ![location] = g.ret], fetches |-> g.fetches]

GeneratedImage_save(self, location, include_generation_parameters, heap_, env) ==
    LET p == Image_pil_image(self, env.storage)
        g == Image_image_bytes(self, env.storage)
        bag == heap_[self.generation_parameters.val]
        exif == (_EXIF_USER_COMMENT_TAG_IDX :> json_dumps(bag)) @@ p.ret.val.exif
        written == [size |-> p.ret.val.size, enc |-> "pil", exif |-> exif]
    IN IF include_generation_parameters
       THEN IF ~self.generation_parameters.set \/ bag = EmptyDict
            THEN [raised |-> ErrNoParameters, self |-> self, fs |-> env.fs, fetches |-> 0]
            ELSE IF ~env.pil
            THEN [raised |-> ErrNoPil, self |-> self, fs |-> env.fs, fetches |-> 0]
            ELSE IF p.raised # ""
            THEN [raised |-> p.raised, self |-> p.self, fs |-> env.fs, fetches |-> p.fetches]
            ELSE [raised |-> "",
                  self |-> [p.self EXCEPT !.loaded_image.val.exif = exif],
                  fs |-> [env.fs EXCEPT ![location] = SomeBytes(written)],
                  fetches |-> p.fetches]
       ELSE IF g.raised # ""
            THEN [raised |-> g.raised, self |-> g.self, fs |-> env.fs, fetches |-> g.fetches]
            ELSE [raised |-> "", self |-> g.self,
                  fs |-> [env.fs EXCEPT ![location] = g.ret], fetches |-> g.fetches]

(***************************************************************************)
(* GeneratedImage.load_from_file(location): Image.load_from_file, then the *)
(* EXIF user comment of the decoded image parsed as JSON, then a new       *)
(* GeneratedImage from the bytes, the parsed bag (a new dict, at reference *)
(* ref) and the URI of the loaded image.                                   *)
(***************************************************************************)
GeneratedImage_load_from_file(location, ref, env) ==
    LET base_image == Image_load_from_file(location, env)
        p == Image_pil_image(base_image.obj, env.storage)
        exif == p.ret.val.exif
        exif_comment_dict == json_loads(exif[_EXIF_USER_COMMENT_TAG_IDX])
        g == Image_image_bytes(p.self, env.storage)
        made == GeneratedImage_init(g.ret, SomeRef(ref), p.self.gcs_uri)
        failed(e) == [raised |-> e, obj |-> NoObject, bag |-> NoBag]
    IN IF base_image.raised # "" THEN failed(base_image.raised)
       ELSE IF ~env.pil THEN failed("AttributeError: 'NoneType' object has no attribute 'open'")
       ELSE IF p.raised # "" THEN failed(p.raised)
       ELSE IF _EXIF_USER_COMMENT_TAG_IDX \notin DOMAIN exif THEN failed(ErrKey)
       ELSE IF _IMAGE_GENERATION_PARAMETERS_EXIF_KEY \notin DOMAIN exif_comment_dict
       THEN failed(ErrKey)
       ELSE IF made.raised # "" THEN failed(made.raised)
       ELSE [raised |-> "", obj |-> made.obj,
             bag |-> [set |-> TRUE,
                      val |-> exif_comment_dict[_IMAGE_GENERATION_PARAMETERS_EXIF_KEY]]]

(***************************************************************************)
(* SpecFile: one GeneratedImage, saved to and loaded from files.  Each     *)
(* action is one call.  PIL is importable or not for the whole behaviour;  *)
(* the stored object may be replaced by another client.                    *)
(***************************************************************************)
SomeBag(d) == [set |-> TRUE, val |-> d]
Bag1 == ("prompt" :> PyStr("a cat")) @@ ("seed" :> PyInt(42))
        @@ ("guidance_scale" :> PyFloat(7)) @@ ("flag" :> PyBool(TRUE))
        @@ ("nothing" :> PyNone) @@ ("sizes" :> PyList(2))
\* What requests.get answers.  length is the number of bytes of the body;
\* the content-length header states it, or is missing (read as 0) when the
\* body is sent with chunked transfer encoding.
NoHttp ==
    [ok |-> FALSE, length |-> 0, content_length |-> 0, content_type |-> "",
     content |-> EmptyBytes]
HttpAnswers ==
    {NoHttp}
    \cup {[ok |-> TRUE, length |-> n, content_length |-> IF stated THEN n ELSE 0,
           content_type |-> t, content |-> BlobV1] :
             n \in {MaxContentLength, MaxContentLength + 1}, stated \in BOOLEAN,
             t \in {"image/png", "text/html", ""}}

InitFile ==
    /\ media = NoObject
    /\ ctor = NoCtor
    /\ blob \in {BlobV1, EmptyBytes}
    /\ downloads = 0
    /\ reads = 0
    /\ firstRead = NoneBytes
    /\ last = NoLast
    /\ fs = EmptyFs
    /\ RaceIdle
    /\ heap = EmptyHeap
    /\ loaded = NoLoaded
    /\ saved = NoSaved
    /\ pil \in BOOLEAN
    /\ CallIdle
    /\ TelIdle
    /\ PollIdle

\* The bags of the heap that belong to the instance under test (reference 1).
OwnBags == IF media.generation_parameters.set THEN SubSeq(heap, 1, 1) ELSE <<>>

\* GeneratedImage(image_bytes, generation_parameters, gcs_uri): a new instance;
\* its bag, when not None, is the dict at reference 1.
NewGenerated(image_bytes, bag, gcs_uri) ==
    LET r == GeneratedImage_init(image_bytes, IF bag.set THEN SomeRef(1) ELSE NoneRef, gcs_uri)
    IN
    /\ ctor' = [kind |-> "GeneratedImage", bytes |-> image_bytes, gcs_uri |-> gcs_uri,
                raised |-> r.raised]
    /\ media' = IF r.raised = "" THEN r.obj ELSE NoObject
    /\ heap' = IF r.raised = "" /\ bag.set THEN <<bag.val>> ELSE <<>>
    /\ loaded' = NoLoaded
    /\ last' = NoLast
    /\ UNCHANGED <<blob, downloads, reads, firstRead, fs, saved, pil, call>>
    /\ UNCHANGED raceVars
    /\ UNCHANGED telVars
    /\ UNCHANGED pollVars

\* image.save(location, include_generation_parameters); saved remembers the
\* bag a successful save embedded in the file.  (An image loaded before is
\* dropped by the caller.)
GenSave(location, include_generation_parameters, ok) ==
    LET env == [pil |-> pil, storage |-> [ok |-> ok, data |-> blob], fs |-> fs]
        r == GeneratedImage_save(media, location, include_generation_parameters, heap, env)
    IN
    /\ media.cls = "GeneratedImage"
    /\ media' = r.self
    /\ fs' = r.fs
    /\ saved' = IF r.raised # "" THEN saved
                ELSE IF include_generation_parameters
                THEN [saved EXCEPT ![location] = SomeBag(heap[media.generation_parameters.val])]
                ELSE [saved EXCEPT ![location] = NoBag]
    /\ last' = [op |-> "save", raised |-> r.raised, location |-> location,
                include |-> include_generation_parameters]
    /\ heap' = OwnBags
    /\ loaded' = NoLoaded
    /\ UNCHANGED <<ctor, blob, downloads, reads, firstRead, pil, call>>
    /\ UNCHANGED raceVars
    /\ UNCHANGED telVars
    /\ UNCHANGED pollVars

\* GeneratedImage.load_from_file(location): the image it returns replaces the
\* one loaded before, its bag is a new dict of the heap.
GenLoad(location, ok, http) ==
    LET env == [pil |-> pil, storage |-> [ok |-> ok, data |-> blob], fs |-> fs, http |-> http]
        r == GeneratedImage_load_from_file(location, Len(OwnBags) + 1, env)
    IN
    /\ loaded' = [raised |-> r.raised, obj |-> r.obj]
    /\ heap' = IF r.raised = "" THEN Append(OwnBags, r.bag.val) ELSE OwnBags
    /\ last' = [op |-> "load", raised |-> r.raised, location |-> location]
    /\ UNCHANGED <<media, ctor, blob, downloads, reads, firstRead, fs, saved, pil, call>>
    /\ UNCHANGED raceVars
    /\ UNCHANGED telVars
    /\ UNCHANGED pollVars

NextFile ==
    \/ \E b \in {NoneBytes, SomeBytes(InlineBytes)}, g \in {NoBag, SomeBag(EmptyDict), SomeBag(Bag1),
                   SomeBag(("prompt" :> PyStr("")) @@ ("size" :> PyTuple(2)))},
          u \in {NoneStr, SomeStr(GcsUri)} : NewGenerated(b, g, u)
    \/ \E l \in Locations, i \in BOOLEAN, ok \in BOOLEAN : GenSave(l, i, ok)
    \/ \E l \in Locations \cup {"missing.png"} : GenLoad(l, TRUE, NoHttp)
    \/ \E l \in {GcsUri, "https://storage.googleapis.com/bucket/my%20object"},
          ok \in BOOLEAN : GenLoad(l, ok, NoHttp)
    \/ \E l \in {"https://example.com/a.png"}, h \in HttpAnswers : GenLoad(l, TRUE, h)

SpecFile == InitFile /\ [][NextFile]_vars

(***************************************************************************)
(* Spec, continued: a call of GeneratedImage.save as one call of Spec, on  *)
(* an image held inline or by URI, with no bag, an empty one or Bag1 (at   *)
(* reference 1 of the heap), with no file written yet.                     *)
(***************************************************************************)
CallGeneratedImageSave ==
    /\ call = NoCall
    /\ \E image_bytes \in {NoneBytes, SomeBytes(InlineBytes)},
          bag \in {NoBag, SomeBag(EmptyDict), SomeBag(Bag1)},
          location \in Locations, include_generation_parameters \in BOOLEAN,
          pil_ \in BOOLEAN, ok \in BOOLEAN :
        LET image == GeneratedImage_init(
                         image_bytes, IF bag.set THEN SomeRef(1) ELSE NoneRef,
                         IF image_bytes.set THEN NoneStr ELSE SomeStr(GcsUri)).obj
            heap_ == IF bag.set THEN <<bag.val>> ELSE <<>>
            env == [pil |-> pil_, storage |-> [ok |-> ok, data |-> BlobV1], fs |-> EmptyFs]
        IN Called("save",
                  [image |-> image, location |-> location,
                   include_generation_parameters |-> include_generation_parameters,
                   heap |-> heap_],
                  env,
                  GeneratedImage_save(image, location, include_generation_parameters,
                                      heap_, env))

\* Image.load_from_file(location) on a generic URL, as one call of Spec.
CallImageLoadFromFile ==
    /\ call = NoCall
    /\ \E location \in {"https://example.com/a.png", "http://example.com/b"},
          http \in HttpAnswers :
        LET env == [fs |-> EmptyFs, http |-> http]
        IN Called("load_from_file", [location |-> location], env,
                  Image_load_from_file(location, env))

\* GeneratedImage.load_from_file(location) on an object-store location, as
\* one call of Spec.  The stored object is a plain picture, an empty object,
\* or a picture whose EXIF user comment holds a bag, as save writes it.
CallGeneratedImageLoadFromFile ==
    /\ call = NoCall
    /\ \E location \in {GcsUri, "https://storage.googleapis.com/bucket/my%20object"},
          ok \in BOOLEAN, pil_ \in BOOLEAN,
          data \in {BlobV1, EmptyBytes,
                    [size |-> <<1024, 1024>>, enc |-> "pil",
                     exif |-> (_EXIF_USER_COMMENT_TAG_IDX :> json_dumps(Bag1))],
                    [size |-> <<1024, 1024>>, enc |-> "pil",
                     exif |-> (_EXIF_USER_COMMENT_TAG_IDX :> json_dumps(EmptyDict))]} :
        LET env == [pil |-> pil_, storage |-> [ok |-> ok, data |-> data], fs |-> EmptyFs,
                    http |-> NoHttp]
        IN Called("GeneratedImage.load_from_file", [location |-> location], env,
                  GeneratedImage_load_from_file(location, 1, env))

Next ==
    \/ CallGenerateImages
    \/ CallEditImage
    \/ CallUpscaleImage
    \/ CallGetCaptions
    \/ CallAskQuestion
    \/ CallGetEmbeddings
    \/ CallGeneratedImageSave
    \/ CallImageLoadFromFile
    \/ CallGeneratedImageLoadFromFile

Spec == InitOps /\ [][Next]_vars

(***************************************************************************)
(* Claims about saving and loading, checked under SpecFile.                *)
(***************************************************************************)
\* The values JSON has a type for: everything of the model but a tuple.
JsonRepresentable(bag) == \A k \in DOMAIN bag : bag[k].t # "tuple"

\* C8: when a file written by save(location, include_generation_parameters=True)
\* from a non-empty bag of JSON-representable values is loaded with
\* GeneratedImage.load_from_file(location), the load succeeds and the loaded
\* image's generation_parameters equal the bag that was saved: same keys, same
\* values, same types.
C8_SaveLoadRoundTrip ==
    (/\ last.op = "load"
     /\ last.location \in Locations
     /\ saved[last.location].set
     /\ JsonRepresentable(saved[last.location].val)) =>
        /\ loaded.raised = ""
        /\ loaded.obj.cls = "GeneratedImage"
        /\ loaded.obj.generation_parameters.set
        /\ heap[loaded.obj.generation_parameters.val] = saved[last.location].val

\* A bag with a str, an int, a float, a bool, a None and a list came back.
C8_Witness ==
    /\ last.op = "load"
    /\ last.location \in Locations
    /\ saved[last.location] = SomeBag(Bag1)
    /\ loaded.raised = ""
    /\ heap[loaded.obj.generation_parameters.val] = Bag1

\* The instance under test has no bag, or an empty one.
NoParameters == ~media.generation_parameters.set \/ heap[1] = EmptyDict

\* The bytes the accessor of the instance under test gives: the bytes it
\* holds, or else the content of the stored object.
RawBytes == IF media.loaded_bytes.set THEN media.loaded_bytes ELSE SomeBytes(blob)

\* C9: a save that asks for the generation parameters on an image whose bag is
\* empty or None raises the missing-parameters error and leaves every file as
\* it was; a save with include_generation_parameters=False never raises that
\* error, and when it returns the file holds the image's bytes unchanged.
C9_SaveWithoutParameters ==
    [][\A l \in Locations, ok \in BOOLEAN :
          /\ (GenSave(l, TRUE, ok) /\ NoParameters) =>
                 (last'.raised = ErrNoParameters /\ fs' = fs)
          /\ GenSave(l, FALSE, ok) =>
                 /\ last'.raised # ErrNoParameters
                 /\ last'.raised = "" => fs'[l] = RawBytes
                 /\ last'.raised # "" => fs' = fs]_vars

\* A save of an image with an empty bag raised, and no file exists.
C9_Witness ==
    /\ last.op = "save"
    /\ last.include
    /\ last.raised = ErrNoParameters
    /\ media.generation_parameters.set
    /\ heap[1] = EmptyDict
    /\ fs = EmptyFs

(***************************************************************************)
(* Claims about the request parameters, checked under Spec.                *)
(***************************************************************************)
\* The key is in the parameters exactly when present holds, and then with value.
KeyIff(parameters, key, present, value) ==
    /\ key \in DOMAIN parameters <=> present
    /\ present => parameters[key] = value

\* The keys of the arguments that are tested with "is not None".
NotNoneKeys ==
    LET p == call.res.parameters
        a == call.args
    IN CASE call.op \in {"generate_images", "edit_image"} ->
                /\ KeyIff(p, "seed", a.seed.set, PyInt(a.seed.val))
                /\ KeyIff(p, "guidanceScale", a.guidance_scale.set,
                          PyFloat(a.guidance_scale.val))
                /\ KeyIff(p, "language", a.language.set, PyStr(a.language.val))
                /\ KeyIff(p, "storageUri", a.output_gcs_uri.set, PyStr(a.output_gcs_uri.val))
         [] call.op = "upscale_image" ->
                call.res.predict_calls = 1 =>
                    KeyIff(p, "storageUri", a.output_gcs_uri.set, PyStr(a.output_gcs_uri.val))
         [] call.op = "get_captions" ->
                KeyIff(p, "storageUri", a.output_gcs_uri.set, PyStr(a.output_gcs_uri.val))
         [] OTHER -> TRUE

C12_DimensionSent ==
    (call.op = "get_embeddings" /\ call.res.predict_calls = 1 /\ call.args.dimension.set) =>
        /\ "dimension" \in DOMAIN call.res.parameters
        /\ call.res.parameters["dimension"] = PyInt(call.args.dimension.val)

\* C12 (amended): every integer dimension other than 0 given to get_embeddings
\* is in the parameters of the request, unchanged, whether or not it is one of
\* 128, 256, 512, 1408; a dimension of 0 is left out like None.
C12_NonZeroDimensionSent ==
    (call.op = "get_embeddings" /\ call.res.predict_calls = 1) =>
        IF call.args.dimension.set /\ call.args.dimension.val # 0
        THEN /\ "dimension" \in DOMAIN call.res.parameters
             /\ call.res.parameters["dimension"] = PyInt(call.args.dimension.val)
        ELSE "dimension" \notin DOMAIN call.res.parameters

\* dimension=1000, outside the allowed set, was sent as it is.
C12_Witness ==
    /\ call.op = "get_embeddings"
    /\ call.args.dimension = SomeNum(1000)
    /\ call.res.predict_calls = 1
    /\ call.res.parameters["dimension"] = PyInt(1000)

\* C13: an upscale_image call that returns, on a GeneratedImage, returns an
\* image that holds the very dict the source holds, and that dict is the
\* source's bag of before the call with upscaled_image_size = new_size set;
\* on a plain Image it returns an image with a new dict that is exactly
\* {upscaled_image_size: new_size}, and no other dict has changed.
C13_UpscaleBagInPlace ==
    (call.op = "upscale_image" /\ call.res.raised = "") =>
        LET before == call.args.heap
            after == call.res.heap
            ref == call.res.ret.generation_parameters
            size == PyInt(call.args.new_size.val)
        IN /\ ref.set
           /\ IF call.args.image.cls = "GeneratedImage"
              THEN /\ ref = call.args.image.generation_parameters
                   /\ ref = call.res.image.generation_parameters
                   /\ Len(after) = Len(before)
                   /\ after[ref.val] = DictSet(before[ref.val], "upscaled_image_size", size)
                   /\ \A k \in DOMAIN before[ref.val] :
                          k # "upscaled_image_size" => after[ref.val][k] = before[ref.val][k]
              ELSE /\ ref.val = Len(before) + 1
                   /\ after = Append(before, ("upscaled_image_size" :> size))

\* A GeneratedImage with a prompt in its bag was upscaled to 4096: the bag it
\* holds after the call has the size and still has the prompt.
C13_Witness ==
    /\ call.op = "upscale_image"
    /\ call.res.raised = ""
    /\ call.args.image.cls = "GeneratedImage"
    /\ call.args.new_size = SomeNum(4096)
    /\ call.res.image.generation_parameters = SomeRef(1)
    /\ call.res.ret.generation_parameters = SomeRef(1)
    /\ call.res.heap[1]["upscaled_image_size"] = PyInt(4096)
    /\ call.res.heap[1]["prompt"] = PyStr("a cat")

\* The public operations that call the endpoint.
PredictOps ==
    {"generate_images", "edit_image", "upscale_image", "get_captions", "ask_question",
     "get_embeddings"}

\* C14: a call of a public operation calls predict at most once; when that
\* call fails, the operation raises the endpoint's error, returns nothing and
\* has called predict exactly once.
C14_AtMostOnePredict ==
    call.op \in PredictOps =>
        /\ call.res.predict_calls \in {0, 1}
        /\ (call.res.predict_calls >= 1 /\ ~call.env.predict.ok) =>
               /\ call.res.raised = ErrRemote
               /\ call.res.predict_calls = 1
        /\ call.res.predict_calls = 0 => call.res.raised # ""

\* The endpoint failed an edit request: the error reached the caller after
\* one predict call.
C14_Witness ==
    /\ call.op = "edit_image"
    /\ ~call.env.predict.ok
    /\ call.res.predict_calls = 1
    /\ call.res.raised = ErrRemote
    /\ call.res.images = <<>>

\* The image is as before but for what it may have cached: the bytes it
\* downloaded and the image it decoded.
SameButCaches(before, after) ==
    /\ after.cls = before.cls
    /\ after.gcs_uri = before.gcs_uri
    /\ after.generation_parameters = before.generation_parameters
    /\ before.loaded_bytes.set => after.loaded_bytes = before.loaded_bytes
    /\ before.loaded_image.set => after.loaded_image = before.loaded_image

\* What a rejected call has not done: upscale_image and get_embeddings made
\* no predict call and changed no dict, save wrote no file and made no download.
NothingDone ==
    CASE call.op = "upscale_image" ->
             /\ call.res.predict_calls = 0
             /\ call.res.heap = call.args.heap
             /\ call.res.ret = NoObject
      [] call.op = "get_embeddings" ->
             /\ call.res.predict_calls = 0
             /\ call.res.instance = EmptyDict
      [] call.op = "save" ->
             /\ call.res.fs = call.env.fs
             /\ call.res.fetches = 0
             /\ call.res.self = call.args.image

\* The call raised one of the validation errors of the three operations.
Rejected ==
    \/ call.op = "upscale_image" /\ call.res.raised \in {ErrSourceSize, ErrTargetSize}
    \/ call.op = "get_embeddings" /\ call.res.raised = ErrNoInput
    \/ call.op = "save" /\ call.res.raised = ErrNoParameters

\* C15 as the specification states it: a rejected call has made no predict
\* call, written no file, and left the objects passed in as they were.
C15_RejectedLeavesObjectsUnchanged ==
    Rejected =>
        /\ NothingDone
        /\ call.op = "upscale_image" => call.res.image = call.args.image

\* C15 (amended): a rejected call has made no predict call, written no file
\* and changed no generation-parameters dict; the image given to upscale_image
\* is as before except that it now holds the decoded image, and the bytes it
\* downloaded if it is backed by a URI, because the size check reads them.
C15_RejectedFailsFast ==
    Rejected =>
        /\ NothingDone
        /\ call.op = "upscale_image" =>
               /\ SameButCaches(call.args.image, call.res.image)
               /\ call.res.image.loaded_image.set
               /\ call.res.image.loaded_bytes.set
               /\ call.res.fetches = IF call.args.image.loaded_bytes.set THEN 0 ELSE 1

\* An 800x800 image behind a URI was rejected by upscale_image after its
\* bytes were downloaded, and before any predict call.
C15_Witness ==
    /\ call.op = "upscale_image"
    /\ call.res.raised = ErrSourceSize
    /\ ~call.args.image.loaded_bytes.set
    /\ call.res.image.loaded_bytes = SomeBytes(SrcBytes(800, 800))
    /\ call.res.fetches = 1
    /\ call.res.predict_calls = 0

\* C16: on a generic URL whose fetch succeeded, Image.load_from_file raises
\* the size-limit error whenever the body is longer than 20 MB, raises the
\* unsupported-type error when the body is within the limit and its
\* content-type is not supported, and only otherwise returns an Image that
\* holds the body inline.
C16_UrlLimits ==
    (call.op = "load_from_file" /\ call.env.http.ok) =>
        LET http == call.env.http
        IN IF http.length > MaxContentLength
           THEN call.res.raised = ErrImageSize
           ELSE IF http.content_type \notin _SUPPORTED_MIME_TYPES
           THEN call.res.raised = ErrImageType
           ELSE /\ call.res.raised = ""
                /\ call.res.obj.loaded_bytes = SomeBytes(http.content)
                /\ ~call.res.obj.gcs_uri.set

\* What the code does: the limit is applied to the content-length header.
C16_UrlLimitsOnHeader ==
    (call.op = "load_from_file" /\ call.env.http.ok) =>
        LET http == call.env.http
        IN IF http.content_length > MaxContentLength
           THEN call.res.raised = ErrImageSize
           ELSE IF http.content_type \notin _SUPPORTED_MIME_TYPES
           THEN call.res.raised = ErrImageType
           ELSE /\ call.res.raised = ""
                /\ call.res.obj.loaded_bytes = SomeBytes(http.content)
                /\ ~call.res.obj.gcs_uri.set

\* A body longer than 20 MB, sent without a content-length header, was
\* returned as an Image.
C16_Witness ==
    /\ call.op = "load_from_file"
    /\ call.env.http.ok
    /\ call.env.http.length > MaxContentLength
    /\ call.res.raised = ""
    /\ call.res.obj.loaded_bytes.set

\* The heap after `d[key] = value` on the dict at reference ref, and after
\* `del d[key]`.
HeapSet(heap_, ref, key, value) == [heap_ EXCEPT ![ref] = DictSet(@, key, value)]
HeapDel(heap_, ref, key) ==
    [heap_ EXCEPT ![ref] = [k \in DOMAIN @ \ {key} |-> @[k]]]

\* C19: the images one generate_images / edit_image call returns hold
\* pairwise distinct dicts: adding a key to the bag of one of them, changing
\* one or removing one leaves the bag of every other image as it was.
C19_BagsIndependent ==
    (call.op \in {"generate_images", "edit_image"} /\ call.res.raised = "") =>
        \A i, j \in 1..Len(call.res.images) :
            i # j =>
                LET ri == call.res.images[i].generation_parameters.val
                    rj == call.res.images[j].generation_parameters.val
                IN /\ ri # rj
                   /\ HeapSet(call.res.heap, ri, "note", PyStr("x"))[rj] = call.res.heap[rj]
                   /\ HeapSet(call.res.heap, ri, "prompt", PyStr("other"))[rj]
                          = call.res.heap[rj]
                   /\ HeapDel(call.res.heap, ri, "prompt")[rj] = call.res.heap[rj]
                   /\ "prompt" \notin DOMAIN HeapDel(call.res.heap, ri, "prompt")[ri]

\* edit_image returned three images, whose bags differ in the index only.
C19_Witness ==
    /\ call.op = "edit_image"
    /\ call.res.raised = ""
    /\ Len(call.res.images) = 3
    /\ call.res.images[1].generation_parameters # call.res.images[3].generation_parameters
    /\ HeapSet(call.res.heap, 3, "index_of_image_in_batch", PyInt(0))[3] = call.res.heap[1]

(***************************************************************************)
(* telemetry.tool_context_manager.  The global list holds the tool         *)
(* contexts; an element of the model also records the thread that appended *)
(* it (by, 0 for an element held from the start), which the code does not  *)
(* store and never compares.  A thread is inside the with-blocks of        *)
(* open[t]; each remembers its tool_context and, for the claim about one   *)
(* thread, the list as it was just before the entry (recorded as long as   *)
(* no other thread has entered a tool context).                            *)
(***************************************************************************)
ErrRuntime == "RuntimeError: Tool context error detected."

_append_tool_context(contexts, tool_context, t) ==
    Append(contexts, [ctx |-> tool_context, by |-> t])

\* list.pop() removes the last element also when the comparison then raises.
_pop_tool_context_keeps_mismatch(contexts, tool_context) ==
    LET popped_tool_context == contexts[Len(contexts)]
    IN IF contexts = <<>>
       THEN [contexts |-> contexts, raised |-> ErrIndex, popped |-> [ctx |-> "", by |-> 0]]
       ELSE IF popped_tool_context.ctx # tool_context
       THEN [contexts |-> contexts, raised |-> ErrRuntime, popped |-> popped_tool_context]
       ELSE [contexts |-> SubSeq(contexts, 1, Len(contexts) - 1), raised |-> "",
             popped |-> popped_tool_context]

_pop_tool_context_unchecked(contexts, tool_context) ==
    LET popped_tool_context == contexts[Len(contexts)]
    IN IF contexts = <<>>
       THEN [contexts |-> contexts, raised |-> ErrIndex, popped |-> [ctx |-> "", by |-> 0]]
       ELSE [contexts |-> SubSeq(contexts, 1, Len(contexts) - 1), raised |-> "",
             popped |-> popped_tool_context]

_pop_tool_context(contexts, tool_context) ==
    LET popped_tool_context == contexts[Len(contexts)]
    IN IF contexts = <<>>
       THEN [contexts |-> contexts, raised |-> ErrIndex, popped |-> [ctx |-> "", by |-> 0]]
       ELSE [contexts |-> SubSeq(contexts, 1, Len(contexts) - 1),
             raised |-> IF popped_tool_context.ctx # tool_context THEN ErrRuntime ELSE "",
             popped |-> popped_tool_context]

InitTelemetry ==
    /\ media = NoObject
    /\ ctor = NoCtor
    /\ blob = BlobV1
    /\ downloads = 0
    /\ reads = 0
    /\ firstRead = NoneBytes
    /\ last = NoLast
    /\ fs = EmptyFs
    /\ RaceIdle
    /\ FileIdle
    /\ CallIdle
    /\ _tool_contexts_to_append \in {<<>>, <<[ctx |-> "A", by |-> 0]>>}
    /\ open = [t \in Threads |-> <<>>]
    /\ exc = [t \in Threads |-> ""]
    /\ tlast = [op |-> ""]
    /\ thist = [initial |-> _tool_contexts_to_append, actors |-> {}, exits |-> FALSE]
    /\ PollIdle

\* `with tool_context_manager(tool_context):` is entered by thread t, which
\* has no exception propagating.
Enter(t, tool_context) ==
    /\ exc[t] = ""
    /\ Len(open[t]) < MaxDepth
    /\ _tool_contexts_to_append' =
           _append_tool_context(_tool_contexts_to_append, tool_context, t)
    /\ open' = [open EXCEPT ![t] =
                   Append(@, [ctx |-> tool_context,
                              before |-> IF thist.actors \subseteq {t}
                                         THEN _tool_contexts_to_append ELSE <<>>])]
    /\ tlast' = [op |-> "enter", thread |-> t, ctx |-> tool_context]
    /\ thist' = [thist EXCEPT !.actors = @ \cup {t}]
    /\ UNCHANGED <<exc, call>>
    /\ UNCHANGED <<mediaVars, raceVars, fileVars, pollVars>>

\* The body of the innermost with-block of thread t raises.
BodyRaises(t) ==
    /\ exc[t] = ""
    /\ open[t] # <<>>
    /\ exc' = [exc EXCEPT ![t] = "Exception"]
    /\ UNCHANGED <<_tool_contexts_to_append, open, tlast, thist, call>>
    /\ UNCHANGED <<mediaVars, raceVars, fileVars, pollVars>>

\* An exit whose pop is not in a finally clause: an exception of the body
\* leaves the with-block without popping.
Exit_without_finally(t) ==
    /\ open[t] # <<>>
    /\ LET frame == open[t][Len(open[t])]
           r == IF exc[t] = "" THEN _pop_tool_context(_tool_contexts_to_append, frame.ctx)
                ELSE [contexts |-> _tool_contexts_to_append, raised |-> "",
                      popped |-> [ctx |-> "", by |-> 0]]
       IN /\ _tool_contexts_to_append' = r.contexts
          /\ open' = [open EXCEPT ![t] = SubSeq(@, 1, Len(@) - 1)]
          /\ exc' = [exc EXCEPT ![t] = IF r.raised # "" THEN r.raised ELSE @]
          /\ tlast' = [op |-> "exit", thread |-> t, ctx |-> frame.ctx,
                       popped |-> r.popped, raised |-> r.raised,
                       propagating |-> exc[t], before |-> frame.before,
                       length |-> Len(_tool_contexts_to_append), alone |-> thist.actors = {t},
                       first |-> ~thist.exits]
    /\ thist' = [thist EXCEPT !.exits = TRUE]
    /\ UNCHANGED call
    /\ UNCHANGED <<mediaVars, raceVars, fileVars, pollVars>>

\* Thread t leaves its innermost with-block, by reaching its end or with the
\* exception that is propagating: the finally clause pops, and an exception
\* of the pop replaces the one that was propagating.
Exit(t) ==
    /\ open[t] # <<>>
    /\ LET frame == open[t][Len(open[t])]
           r == _pop_tool_context(_tool_contexts_to_append, frame.ctx)
       IN /\ _tool_contexts_to_append' = r.contexts
          /\ open' = [open EXCEPT ![t] = SubSeq(@, 1, Len(@) - 1)]
          /\ exc' = [exc EXCEPT ![t] = IF r.raised # "" THEN r.raised ELSE @]
          /\ tlast' = [op |-> "exit", thread |-> t, ctx |-> frame.ctx,
                       popped |-> r.popped, raised |-> r.raised,
                       propagating |-> exc[t], before |-> frame.before,
                       length |-> Len(_tool_contexts_to_append), alone |-> thist.actors = {t},
                       first |-> ~thist.exits]
    /\ thist' = [thist EXCEPT !.exits = TRUE]
    /\ UNCHANGED call
    /\ UNCHANGED <<mediaVars, raceVars, fileVars, pollVars>>

\* The exception propagating in thread t is caught by the code around the
\* with-block it has left, or ends the thread's work at its top level.
Catch(t) ==
    /\ exc[t] # ""
    /\ tlast.op = "exit" /\ tlast.thread = t
    /\ exc' = [exc EXCEPT ![t] = ""]
    /\ UNCHANGED <<_tool_contexts_to_append, open, tlast, thist, call>>
    /\ UNCHANGED <<mediaVars, raceVars, fileVars, pollVars>>

NextTelemetry ==
    \/ \E t \in Threads, tool_context \in {"A", "B"} : Enter(t, tool_context)
    \/ \E t \in Threads : BodyRaises(t)
    \/ \E t \in Threads : Exit(t)
    \/ \E t \in Threads : Catch(t)

SpecTelemetry == InitTelemetry /\ [][NextTelemetry]_vars

(***************************************************************************)
(* Claims about the tool contexts, checked under SpecTelemetry.            *)
(***************************************************************************)

\* C17: as long as one thread only has entered tool contexts, the list just
\* after an exit is the list just before the matching entry, whether the
\* body ended or raised, no exit raises RuntimeError, and the last element
\* of the list is the tool_context of the innermost block a thread is inside.
C17_PushOnEntryPopOnExit ==
    /\ (tlast.op = "exit" /\ tlast.alone) =>
           /\ _tool_contexts_to_append = tlast.before
           /\ tlast.raised = ""
    /\ \A t \in Threads :
           (thist.actors = {t} /\ open[t] # <<>>) =>
               /\ _tool_contexts_to_append # <<>>
               /\ _tool_contexts_to_append[Len(_tool_contexts_to_append)].ctx
                      = open[t][Len(open[t])].ctx

\* One thread left a nested block through an exception of its body, and the
\* list is again what it was before that block was entered.
C17_Witness ==
    /\ tlast.op = "exit"
    /\ tlast.alone
    /\ tlast.propagating = "Exception"
    /\ Len(tlast.before) = 2
    /\ _tool_contexts_to_append = tlast.before
    /\ exc[tlast.thread] = "Exception"

\* The tool_context of the with-blocks the threads are inside, counted.
RECURSIVE OpenCount(_)
OpenCount(T) ==
    IF T = {} THEN 0
    ELSE LET t == CHOOSE u \in T : TRUE
         IN Len(open[t]) + OpenCount(T \ {t})

\* C18: an exit raises RuntimeError exactly when the value it popped differs
\* from the tool_context it exits; so when two threads each hold one
\* context, under different names, and the thread that entered first (its
\* element lies below the other's) exits first, before any other exit, that
\* exit raises.
C18_MismatchedPopRaises ==
    tlast.op = "exit" =>
        /\ (tlast.raised = ErrRuntime) <=> (tlast.popped.ctx # tlast.ctx)
        /\ tlast.raised \in {"", ErrRuntime}
        /\ \A u \in Threads \ {tlast.thread} :
               (/\ tlast.first
                /\ open[tlast.thread] = <<>>
                /\ Len(open[u]) = 1
                /\ open[u][1].ctx # tlast.ctx
                /\ tlast.popped.by = u
                /\ _tool_contexts_to_append
                       = Append(thist.initial, [ctx |-> tlast.ctx, by |-> tlast.thread]))
               => tlast.raised = ErrRuntime

\* Two threads entered "A" then "B", nothing else was open, and the thread
\* of "A" left first: its exit popped "B" and raised RuntimeError.
C18_Witness ==
    /\ tlast.op = "exit"
    /\ tlast.first
    /\ tlast.ctx = "A"
    /\ tlast.popped.ctx = "B"
    /\ tlast.popped.by # tlast.thread
    /\ _tool_contexts_to_append = Append(thist.initial, [ctx |-> "A", by |-> tlast.thread])
    /\ open[tlast.thread] = <<>>
    /\ Len(open[tlast.popped.by]) = 1
    /\ tlast.raised = ErrRuntime
    /\ exc[tlast.thread] = ErrRuntime

\* C20: the list is as long as it was at the start plus the number of
\* with-blocks entered and not yet left, every exit shortens it by one
\* element, also one that raises RuntimeError, and the list has its initial
\* length, and its initial content, when no thread is inside a with-block.
C20_StackLengthCountsOpenContexts ==
    /\ Len(_tool_contexts_to_append) = Len(thist.initial) + OpenCount(Threads)
    /\ tlast.op = "exit" =>
           /\ Len(_tool_contexts_to_append) = tlast.length - 1
           /\ tlast.raised # ErrIndex
    /\ OpenCount(Threads) = 0 => _tool_contexts_to_append = thist.initial

\* Both threads have left their with-blocks, the last exit raised
\* RuntimeError, and the list is as long as at the start.
C20_Witness ==
    /\ tlast.op = "exit"
    /\ tlast.raised = ErrRuntime
    /\ thist.actors = Threads
    /\ OpenCount(Threads) = 0
    /\ Len(_tool_contexts_to_append) = Len(thist.initial)

(***************************************************************************)
(* Claims about loading from object-store locations, checked under Spec.   *)
(***************************************************************************)

\* The stored object decodes to a picture whose EXIF user comment is a JSON
\* text with the generation-parameters key.
StoredWithParameters ==
    /\ call.env.storage.ok
    /\ _EXIF_USER_COMMENT_TAG_IDX \in DOMAIN call.env.storage.data.exif
    /\ _IMAGE_GENERATION_PARAMETERS_EXIF_KEY
           \in DOMAIN call.env.storage.data.exif[_EXIF_USER_COMMENT_TAG_IDX]

\* C21: GeneratedImage.load_from_file on a gs:// or storage.googleapis.com
\* location never returns an image; when the object was downloaded, PIL is
\* there and the object carries generation parameters, what it raises is the
\* both-or-neither error of the constructor, which was given the downloaded
\* bytes and the URI.
C21_ObjectStoreLoadNeverReturns ==
    call.op = "GeneratedImage.load_from_file" =>
        /\ call.res.raised # ""
        /\ call.res.obj = NoObject
        /\ (StoredWithParameters /\ call.env.pil) => call.res.raised = ErrConstruct

\* A stored picture that carries Bag1 was loaded by its https URL and
\* rejected by the constructor.
C21_Witness ==
    /\ call.op = "GeneratedImage.load_from_file"
    /\ call.args.location = "https://storage.googleapis.com/bucket/my%20object"
    /\ StoredWithParameters
    /\ json_loads(call.env.storage.data.exif[_EXIF_USER_COMMENT_TAG_IDX])
           [_IMAGE_GENERATION_PARAMETERS_EXIF_KEY] = Bag1
    /\ call.env.pil
    /\ call.res.raised = ErrConstruct

(***************************************************************************)
(* The polling loop of test_job_submission_dashboard, after submit_job.    *)
(* The job is PENDING when submitted; the cluster moves it to RUNNING and  *)
(* to one of the final statuses SUCCEEDED, FAILED and STOPPED, which it    *)
(* keeps.  ppc is the test's position: at the loop test ("while"), in      *)
(* time.sleep(10) ("sleep"), in the branch that prints the logs and raises *)
(* ("raise"), after the loop ("done") or left by RuntimeError ("raised").  *)
(* The counters of polls stop counting at MaxPolls.                        *)
(***************************************************************************)
InitPoll ==
    /\ media = NoObject
    /\ ctor = NoCtor
    /\ blob = BlobV1
    /\ downloads = 0
    /\ reads = 0
    /\ firstRead = NoneBytes
    /\ last = NoLast
    /\ fs = EmptyFs
    /\ RaceIdle
    /\ FileIdle
    /\ CallIdle
    /\ TelIdle
    /\ PollIdle

\* The cluster moves the job on.
JobProgress ==
    /\ job \in {"PENDING", "RUNNING"}
    /\ job' \in (IF job = "PENDING" THEN {"RUNNING"} ELSE {"SUCCEEDED"}) \cup {"FAILED", "STOPPED"}
    /\ UNCHANGED <<job_status, ppc, polls, call>>
    /\ UNCHANGED <<mediaVars, raceVars, fileVars, telVars>>

\* A loop that sleeps on every status but SUCCEEDED and FAILED.
GetJobInfo_stopped_sleeps ==
    /\ ppc = "while"
    /\ job_status # "SUCCEEDED"
    /\ job_status' = job
    /\ polls' = [polls EXCEPT !.status = IF @ < MaxPolls THEN @ + 1 ELSE @]
    /\ ppc' = IF job = "FAILED" THEN "raise"
              ELSE IF job = "SUCCEEDED" THEN "while"
              ELSE "sleep"
    /\ UNCHANGED <<job, call>>
    /\ UNCHANGED <<mediaVars, raceVars, fileVars, telVars>>

\* The loop test holds: job_status = client.get_job_info(job_id).status, and
\* the if / elif that follows chooses the sleep, the raise, or neither.
GetJobInfo ==
    /\ ppc = "while"
    /\ job_status # "SUCCEEDED"
    /\ job_status' = job
    /\ polls' = [polls EXCEPT !.status = IF @ < MaxPolls THEN @ + 1 ELSE @]
    /\ ppc' = IF job \in {"PENDING", "RUNNING"} THEN "sleep"
              ELSE IF job \in {"FAILED", "STOPPED"} THEN "raise"
              ELSE "while"
    /\ UNCHANGED <<job, call>>
    /\ UNCHANGED <<mediaVars, raceVars, fileVars, telVars>>

\* time.sleep(10) returns, and the loop test is next.
TimeSleep ==
    /\ ppc = "sleep"
    /\ ppc' = "while"
    /\ polls' = [polls EXCEPT !.sleep = IF @ < MaxPolls THEN @ + 1 ELSE @]
    /\ UNCHANGED <<job, job_status, call>>
    /\ UNCHANGED <<mediaVars, raceVars, fileVars, telVars>>

\* The job logs are printed and RuntimeError is raised.
RaiseRuntimeError ==
    /\ ppc = "raise"
    /\ ppc' = "raised"
    /\ UNCHANGED <<job, job_status, polls, call>>
    /\ UNCHANGED <<mediaVars, raceVars, fileVars, telVars>>

\* The loop test fails: job_status is SUCCEEDED, the loop is left.
WhileExit ==
    /\ ppc = "while"
    /\ job_status = "SUCCEEDED"
    /\ ppc' = "done"
    /\ UNCHANGED <<job, job_status, polls, call>>
    /\ UNCHANGED <<mediaVars, raceVars, fileVars, telVars>>

NextPoll ==
    \/ JobProgress
    \/ GetJobInfo
    \/ TimeSleep
    \/ RaiseRuntimeError
    \/ WhileExit

\* The test keeps running: its calls return and its statements are executed.
\* The cluster need not move the job on.
SpecPoll ==
    /\ InitPoll
    /\ [][NextPoll]_vars
    /\ WF_vars(GetJobInfo \/ TimeSleep \/ RaiseRuntimeError \/ WhileExit)

(***************************************************************************)
(* Claim about the polling loop, checked under SpecPoll.                   *)
(***************************************************************************)

\* C22: the loop is left normally only with SUCCEEDED observed, it goes to
\* the raise as soon as FAILED or STOPPED is observed and polls no more, it
\* is still in the loop while the last status observed is PENDING or RUNNING
\* and then polls again after the sleep, and once the job is in a final
\* status for good the loop ends, normally or by RuntimeError.
C22_PollingLoop ==
    /\ [](ppc = "done" => job_status = "SUCCEEDED")
    /\ [](job_status \in {"FAILED", "STOPPED"} <=> ppc \in {"raise", "raised"})
    /\ [](job_status \in {"None", "PENDING", "RUNNING"} => ppc \in {"while", "sleep"})
    /\ [][(job_status \in {"FAILED", "STOPPED"}) =>
               (job_status' = job_status /\ polls' = polls)]_vars
    /\ \A n \in 0..(MaxPolls - 1) :
           (ppc = "sleep" /\ polls.status = n) ~> (polls.status = n + 1)
    /\ (ppc = "raise") ~> (ppc = "raised")
    /\ (<>[](job \in {"SUCCEEDED", "FAILED", "STOPPED"})) => <>(ppc \in {"done", "raised"})

\* The loop saw PENDING and RUNNING, slept twice, saw STOPPED on the third
\* poll and raised.
C22_Witness ==
    /\ ppc = "raised"
    /\ job_status = "STOPPED"
    /\ polls = [status |-> 3, sleep |-> 2]

====
